---- MODULE Spec2Model ----
(***************************************************************************)
(* Model of the storage layer of gorgasm (internal/dom/storage.go):        *)
(* Storage (the browser store and its observers) and CachedStorage (the    *)
(* TTL cache in front of it).  Handlers that call observers are split at   *)
(* the points where an observer can run, so that a re-entrant call from an *)
(* observer and the state between two statements are both visible.         *)
(***************************************************************************)
EXTENDS Integers, Sequences, FiniteSets, TLC

VARIABLES
    store,            \* the browser storage object: key -> string
    Cache,            \* CachedStorage.Cache of the instance
    TTL,              \* CachedStorage.TTL of the instance: key -> expiry time
    now,              \* time.Now()
    observers,        \* package variable observers: key -> sequence of observers
    eventListenerSet, \* package variable eventListenerSet
    stack,            \* the Go call stack of storage operations in progress
    notified,         \* history: notifyObservers calls of the current top-level call
    delivered,        \* history: observer invocations of the current top-level call
    ncalls,           \* history: storage operations started by the current top-level call
    probe,            \* which of the histories below this behaviour records
    held,             \* history: key -> values the store has ever held for it
    setAt,            \* history: key -> time and value of the CachedStorage.SetItem that made its entry
    extAt,            \* history: a key -> time of its last change not made through the cache
    ttlSet,           \* history: keys to which SetTTL was applied
    keyTTL,           \* history: key -> the duration SetTTL last gave it
    wrote,            \* history: key -> the typed value a typed setter last wrote to it
    mig,              \* history: the body calls and version writes of RunMigration
    todos,            \* package main: the slice todos
    timers,           \* the window's pending SetTimeout callbacks of the todo list
    phase,            \* package main: how far main has come
    hostListeners,    \* the window's "storage" listeners added by setupStorageEventListener
    session           \* window.sessionStorage: key -> value

vars == <<store, Cache, TTL, now, observers, eventListenerSet, stack, notified,
          delivered, ncalls, probe, held, setAt, extAt, ttlSet, keyTTL, wrote, mig,
          todos, timers, phase, hostListeners, session>>

----------------------------------------------------------------------------
(* Bounds and input sets *)

MaxTime == 2
MaxDepth == 2
MaxObservers == 2
MaxWrites == 2
DefaultTTL == 2

Keys == {"k1", "k2"}
Values == {"a", "b"}
Observers == {"L1", "L2"}
TTLChoices == {1, 3}
Wildcard == "*"
TypedKey == "k1"
Targets == {1, 2}

----------------------------------------------------------------------------
(* Go maps *)

EmptyMap == <<>>
MapSet(m, k, v) == [x \in (DOMAIN m) \cup {k} |-> IF x = k THEN v ELSE m[x]]
MapDelNone(m, k) == m
MapDel(m, k) == [x \in (DOMAIN m) \ {k} |-> m[x]]

(* Storage.GetItem: null or undefined reads as "" *)
StoreGetItem(s, k) == IF k \in DOMAIN s THEN s[k] ELSE ""

(* Storage.Keys: the keys the store enumerates *)
StoreKeys(s) == DOMAIN s

(* the orders in which key(0..length-1) can enumerate a key set *)
Orderings(S) == {q \in UNION {[1..n -> S] : n \in {Cardinality(S)}} :
                    \A i, j \in DOMAIN q : i # j => q[i] # q[j]}

(* notifyObservers: the observers of the key, then the wildcard observers *)
ObserversOf(k) == IF k \in DOMAIN observers THEN observers[k] ELSE <<>>
DispatchListWildcardFirst(k) == ObserversOf(Wildcard) \o ObserversOf(k)
DispatchList(k) == ObserversOf(k) \o ObserversOf(Wildcard)

(* ttl.After(time.Now()) *)
AfterAsBefore(t, n) == t < n
After(t, n) == t > n

(* time.Now().Add(c.DefaultTTL): the expiry SetItem and GetItem give a new entry *)
NewExpiryWithoutTTL == now
NewExpiry == now + DefaultTTL

(* CachedStorage.GetItem: the entry of k is served from the cache *)
CacheHit(k) == k \in DOMAIN Cache /\ (k \notin DOMAIN TTL \/ After(TTL[k], now))

(* CachedStorage.GetItem: the value returned *)
GetItemValue(k) == IF CacheHit(k) THEN Cache[k] ELSE StoreGetItem(store, k)

(* CachedStorage.GetItem: the number of reads of the backing store *)
GetItemReads(k) == IF CacheHit(k) THEN 0 ELSE 1

(* a GetItem that caches whatever the backing store returned *)
GetItemCacheAnyValue(k) ==
    IF CacheHit(k) THEN Cache ELSE MapSet(Cache, k, StoreGetItem(store, k))

(* CachedStorage.GetItem: the cache and expiry maps afterwards *)
GetItemCache(k) ==
    IF CacheHit(k) THEN Cache
    ELSE IF StoreGetItem(store, k) # "" THEN MapSet(Cache, k, StoreGetItem(store, k))
    ELSE MapDel(Cache, k)
GetItemTTL(k) ==
    IF CacheHit(k) THEN TTL
    ELSE IF StoreGetItem(store, k) # "" THEN MapSet(TTL, k, NewExpiry)
    ELSE IF k \in DOMAIN Cache THEN MapDel(TTL, k)
    ELSE TTL

----------------------------------------------------------------------------
(* Conversions of the typed accessors.  A stored string is read character   *)
(* by character through Explode; Texts are the stored strings of the typed  *)
(* operations, the malformed ones among them.                               *)

Digit == <<"0", "1", "2", "3", "4", "5", "6", "7", "8", "9">>

Texts == {<<"t", "r", "u", "e">>, <<"f", "a", "l", "s", "e">>, <<"n", "u", "l", "l">>,
          <<"-", "1">>, <<"0">>, <<"1">>, <<"2">>, <<"1", "2">>, <<"\"", "a", "\"">>, <<"\"", "\"">>,
          <<"x">>, <<"+", "1">>, <<"\"", "a">>, <<"T">>, <<"-">>, <<"a">>, <<"b">>, <<>>}

RECURSIVE Implode(_)
Implode(c) == IF c = <<>> THEN "" ELSE Head(c) \o Implode(Tail(c))

Explode(s) == CHOOSE c \in Texts : Implode(c) = s

(* stored strings no typed setter produces *)
Malformed == {"x", "+1", Implode(<<"\"", "a">>), "T", "-"}

(* the values given to the typed setters *)
Ints == {-1, 0, 12}
Null == [kind |-> "null"]
Unencodable == [kind |-> "chan"]
JSONValues == {Null, [kind |-> "bool", val |-> TRUE], [kind |-> "num", val |-> 1],
               [kind |-> "str", val |-> "a"], [kind |-> "str", val |-> ""]}

(* strconv.FormatBool, strconv.ParseBool *)
FormatBool(b) == IF b THEN "true" ELSE "false"
ParseBool(s) ==
    IF s \in {"1", "t", "T", "TRUE", "true", "True"} THEN [err |-> FALSE, val |-> TRUE]
    ELSE IF s \in {"0", "f", "F", "FALSE", "false", "False"} THEN [err |-> FALSE, val |-> FALSE]
    ELSE [err |-> TRUE, val |-> FALSE]

(* strconv.Itoa *)
RECURSIVE FormatUint(_)
FormatUint(n) == IF n < 10 THEN Digit[n + 1]
                 ELSE FormatUint(n \div 10) \o Digit[(n % 10) + 1]
Itoa(n) == IF n < 0 THEN "-" \o FormatUint(0 - n) ELSE FormatUint(n)

(* strconv.Atoi: an optional sign, then one or more decimal digits *)
IsDigit(ch) == \E i \in DOMAIN Digit : Digit[i] = ch
DigitValue(ch) == (CHOOSE i \in DOMAIN Digit : Digit[i] = ch) - 1
RECURSIVE ParseUint(_)
ParseUint(c) == IF c = <<>> THEN 0
                ELSE ParseUint(SubSeq(c, 1, Len(c) - 1)) * 10 + DigitValue(c[Len(c)])
Atoi(s) ==
    LET c == Explode(s)
        signed == c # <<>> /\ c[1] \in {"+", "-"}
        digits == IF signed THEN Tail(c) ELSE c
    IN  IF digits = <<>> \/ \E i \in DOMAIN digits : ~IsDigit(digits[i])
        THEN [err |-> TRUE, val |-> 0]
        ELSE [err |-> FALSE,
              val |-> IF signed /\ c[1] = "-" THEN 0 - ParseUint(digits) ELSE ParseUint(digits)]

(* strconv.ParseFloat and strconv.ParseInt(value, 10, 64) on these texts,   *)
(* which hold no fraction, exponent, inf or nan: a signed run of digits     *)
ParseFloat(s) == Atoi(s)
ParseInt(s) == Atoi(s)

(* json.Marshal of a value of the kinds above; a channel cannot be encoded  *)
Marshal(v) ==
    CASE v.kind = "null" -> [err |-> FALSE, data |-> "null"]
      [] v.kind = "bool" -> [err |-> FALSE, data |-> IF v.val THEN "true" ELSE "false"]
      [] v.kind = "num"  -> [err |-> FALSE, data |-> Itoa(v.val)]
      [] v.kind = "str"  -> [err |-> FALSE, data |-> "\"" \o v.val \o "\""]
      [] OTHER           -> [err |-> TRUE, data |-> ""]

(* the JSON text grammar on these texts: a literal, an integer without      *)
(* leading zero or plus sign, or a quoted string without escapes            *)
IsJSONNumber(c) ==
    LET digits == IF c # <<>> /\ c[1] = "-" THEN Tail(c) ELSE c
    IN  /\ digits # <<>>
        /\ \A i \in DOMAIN digits : IsDigit(digits[i])
        /\ Len(digits) > 1 => digits[1] # "0"
IsJSONString(c) ==
    /\ Len(c) >= 2
    /\ c[1] = "\""
    /\ c[Len(c)] = "\""
    /\ \A i \in 2..(Len(c) - 1) : c[i] \notin {"\"", "\\"}
Decode(c) ==
    IF c = <<"n", "u", "l", "l">> THEN [err |-> FALSE, val |-> Null]
    ELSE IF c = <<"t", "r", "u", "e">> THEN [err |-> FALSE, val |-> [kind |-> "bool", val |-> TRUE]]
    ELSE IF c = <<"f", "a", "l", "s", "e">> THEN [err |-> FALSE, val |-> [kind |-> "bool", val |-> FALSE]]
    ELSE IF IsJSONNumber(c)
         THEN [err |-> FALSE,
               val |-> [kind |-> "num",
                        val |-> IF c[1] = "-" THEN 0 - ParseUint(Tail(c)) ELSE ParseUint(c)]]
    ELSE IF IsJSONString(c)
         THEN [err |-> FALSE, val |-> [kind |-> "str", val |-> Implode(SubSeq(c, 2, Len(c) - 1))]]
    ELSE [err |-> TRUE, val |-> Null]

(* json.Unmarshal into a target that holds t: a syntax error or a value of  *)
(* another type leaves the target as it is and is an error; null sets a     *)
(* nil-able target to nil and leaves any other as it is                     *)
Unmarshal(s, t) ==
    LET d == Decode(Explode(s))
    IN  IF d.err THEN [err |-> TRUE, val |-> t]
        ELSE IF d.val.kind = "null"
             THEN [err |-> FALSE, val |-> IF t.kind = "null" THEN Null ELSE t]
        ELSE IF d.val.kind = t.kind THEN [err |-> FALSE, val |-> d.val]
        ELSE [err |-> TRUE, val |-> t]

----------------------------------------------------------------------------
(* The call stack.  A frame is one storage operation in progress: at is     *)
(* the statement it runs next ("store": the call of the Storage method,     *)
(* "dispatch": inside notifyObservers), ev the event it is dispatching,     *)
(* pending the observers that event still goes to, keys the keys Clear has  *)
(* still to notify, ret and reads what GetItem returns and how often it     *)
(* read the store.  pre is the state the operation was called in; no        *)
(* operation reads it.                                                      *)

NoEvent == [key |-> "", old |-> "", new |-> ""]

(* what a typed accessor hands back: the decoded value, none before it returns *)
NoResult == [kind |-> "none"]

(* no RunMigration has been called: no run in progress, none before it *)
NoMigration == [target |-> 0, from |-> 0, invoked |-> <<>>, body |-> "none",
                end |-> EmptyMap,
                last |-> [target |-> 0, result |-> "none", invoked |-> 0, store |-> EmptyMap]]

Snapshot == [store |-> store, Cache |-> Cache, TTL |-> TTL, now |-> now,
             setAt |-> setAt, extAt |-> extAt, ttlSet |-> ttlSet, todos |-> todos]

Frame(id, op, k, v, d, at) ==
    [id |-> id, op |-> op, key |-> k, value |-> v, dur |-> d, at |-> at,
     ev |-> NoEvent, applied |-> FALSE, pending |-> <<>>, keys |-> <<>>,
     ret |-> "", reads |-> 0, arg |-> NoResult, out |-> NoResult, err |-> FALSE,
     pre |-> Snapshot]

Top == stack[Len(stack)]
At(ops, stmt) == stack # <<>> /\ Top.op \in ops /\ Top.at = stmt

(* the frame of a dispatching operation: when no observer and no key is     *)
(* left, notifyObservers and the Storage method are through and the         *)
(* operation is about to return                                             *)
Settle(f) == IF f.at = "dispatch" /\ f.pending = <<>> /\ f.keys = <<>>
             THEN [f EXCEPT !.at = "return"] ELSE f
SetTop(f) == stack' = [stack EXCEPT ![Len(stack)] = Settle(f)]

(* the maps of the caller's instance after a value-receiver method has      *)
(* assigned fresh maps to its own copy c (c.Cache = make(...))              *)
ReceiverCache == Cache
ReceiverTTL == TTL

(* Storage.SetItem / RemoveItem: oldValue := s.GetItem(key) *)
OldValueFromCache(k) == IF k \in DOMAIN Cache THEN Cache[k] ELSE ""
OldValue(k) == StoreGetItem(store, k)

(* Storage.Clear: the oldValue argument s.GetItem(key), evaluated in the loop *)
ClearOldValue(k) == StoreGetItem(store, k)

(* Storage.Clear: keys := s.Keys() *)
ClearKeysAll == Keys
ClearKeys == StoreKeys(store)

(* CachedStorage.SetItem: the value of c.Cache[key] = value *)
CachedValueIfMissing(k, v) == IF k \in DOMAIN Cache THEN Cache[k] ELSE v
CachedValue(k, v) == v

(* CachedStorage.RemoveItem: the expiry map after delete(c.TTL, key) *)
TTLNotDeleted(k) == TTL
TTLDeleted(k) == MapDel(TTL, k)

(* histories *)
Changed(s, t) == {k \in Keys : (k \in DOMAIN s) # (k \in DOMAIN t)
                                 \/ StoreGetItem(s, k) # StoreGetItem(t, k)}
Hold(h, s) == IF probe = "held"
              THEN [k \in Keys |-> IF k \in DOMAIN s THEN h[k] \cup {s[k]} ELSE h[k]]
              ELSE h
(* extAt follows one key: from a change of it on, every later change of it *)
Stamps(m, S, t) ==
    IF probe # "extAt" \/ S = {} THEN {m}
    ELSE IF DOMAIN m = {} THEN {m} \cup {MapSet(EmptyMap, k, t) : k \in S}
    ELSE {[k \in DOMAIN m |-> IF k \in S THEN t ELSE m[k]]}
Made(m, k, t, v) == IF probe = "setAt" THEN MapSet(m, k, [at |-> t, value |-> v]) ELSE m
Touched(S, k) == IF probe = "extAt" THEN S \cup {k} ELSE S
Given(m, k, d) == IF probe = "keyTTL" THEN MapSet(m, k, d) ELSE m

Note(f, e, ok) == [id |-> f.id, op |-> f.op, key |-> e.key, old |-> e.old,
                   new |-> e.new, applied |-> ok]
Delivery(f) == [id |-> f.id, obs |-> Head(f.pending), key |-> f.ev.key,
                old |-> f.ev.old, new |-> f.ev.new]

----------------------------------------------------------------------------
InitProgram ==
    /\ store \in {EmptyMap, MapSet(EmptyMap, "k1", "a"),
                  MapSet(MapSet(EmptyMap, "k1", "a"), "k2", "b")}
    /\ Cache = EmptyMap
    /\ TTL = EmptyMap
    /\ now = 0
    /\ observers = [k \in Keys \cup {Wildcard} |-> <<>>]
    /\ eventListenerSet = FALSE
    /\ stack = <<>>
    /\ notified = <<>>
    /\ delivered = <<>>
    /\ ncalls = 0
    /\ held = [k \in Keys |-> IF probe = "held" /\ k \in DOMAIN store THEN {store[k]} ELSE {}]
    /\ setAt = EmptyMap
    /\ extAt = EmptyMap
    /\ ttlSet = {}
    /\ keyTTL = EmptyMap
    /\ wrote = EmptyMap
    /\ mig = NoMigration
    /\ todos = <<>>
    /\ timers = <<>>
    /\ phase = "running"
    /\ hostListeners = 0
    /\ session = EmptyMap

Init ==
    /\ probe = "setAt"
    /\ InitProgram

InitHeld ==
    /\ probe = "held"
    /\ InitProgram

InitStale ==
    /\ probe = "extAt"
    /\ InitProgram

InitNotify ==
    /\ probe = "none"
    /\ InitProgram

(* CachedStorage.GetItem *)
CGetItem(k) ==
    /\ stack = <<>>
    /\ Cache' = GetItemCache(k)
    /\ TTL' = GetItemTTL(k)
    /\ setAt' = IF CacheHit(k) THEN setAt ELSE MapDel(setAt, k)
    /\ ttlSet' = ttlSet
    /\ stack' = <<[Frame(1, "CGetItem", k, "", 0, "return")
                     EXCEPT !.ret = GetItemValue(k), !.reads = GetItemReads(k)]>>
    /\ ncalls' = 1
    /\ UNCHANGED <<store, now, observers, eventListenerSet, notified, delivered,
                   probe, session, todos, timers, phase, hostListeners, keyTTL, wrote, mig, held, extAt>>

(* CachedStorage.SetItem: c.Cache[key] = value; c.TTL[key] = ...; the call  *)
(* of c.Storage.SetItem is next.  below is the caller's stack.              *)
EnterSetItem(below, id, k, v) ==
    /\ Cache' = MapSet(Cache, k, CachedValue(k, v))
    /\ TTL' = MapSet(TTL, k, NewExpiry)
    /\ setAt' = Made(setAt, k, now, v)
    /\ ttlSet' = ttlSet
    /\ stack' = Append(below, Frame(id, "CSetItem", k, v, 0, "store"))
    /\ ncalls' = id

CSetItem(k, v) ==
    /\ stack = <<>>
    /\ EnterSetItem(<<>>, 1, k, v)
    /\ UNCHANGED <<store, now, observers, eventListenerSet, notified, delivered,
                   probe, session, todos, timers, phase, hostListeners, keyTTL, wrote, mig, held, extAt>>

(* CachedStorage.RemoveItem: delete(c.Cache, key); delete(c.TTL, key) *)
CRemoveItem(k) ==
    /\ stack = <<>>
    /\ Cache' = MapDel(Cache, k)
    /\ TTL' = TTLDeleted(k)
    /\ setAt' = MapDel(setAt, k)
    /\ ttlSet' = ttlSet
    /\ stack' = <<Frame(1, "CRemoveItem", k, "", 0, "store")>>
    /\ ncalls' = 1
    /\ UNCHANGED <<store, now, observers, eventListenerSet, notified, delivered,
                   probe, session, todos, timers, phase, hostListeners, keyTTL, wrote, mig, held, extAt>>

(* CachedStorage.Clear: c.Cache = make(...); c.TTL = make(...) *)
CClear ==
    /\ stack = <<>>
    /\ Cache' = ReceiverCache
    /\ TTL' = ReceiverTTL
    /\ setAt' = EmptyMap
    /\ ttlSet' = ttlSet
    /\ stack' = <<Frame(1, "CClear", "", "", 0, "store")>>
    /\ ncalls' = 1
    /\ UNCHANGED <<store, now, observers, eventListenerSet, notified, delivered,
                   probe, session, todos, timers, phase, hostListeners, keyTTL, wrote, mig, held, extAt>>

(* CachedStorage.InvalidateCache *)
InvalidateCache ==
    /\ stack = <<>>
    /\ Cache' = ReceiverCache
    /\ TTL' = ReceiverTTL
    /\ setAt' = EmptyMap
    /\ ttlSet' = ttlSet
    /\ stack' = <<Frame(1, "InvalidateCache", "", "", 0, "return")>>
    /\ ncalls' = 1
    /\ UNCHANGED <<store, now, observers, eventListenerSet, notified, delivered,
                   probe, session, todos, timers, phase, hostListeners, keyTTL, wrote, mig, held, extAt>>

(* CachedStorage.InvalidateKey *)
InvalidateKey(k) ==
    /\ stack = <<>>
    /\ Cache' = MapDel(Cache, k)
    /\ TTL' = MapDel(TTL, k)
    /\ setAt' = MapDel(setAt, k)
    /\ ttlSet' = ttlSet
    /\ stack' = <<Frame(1, "InvalidateKey", k, "", 0, "return")>>
    /\ ncalls' = 1
    /\ UNCHANGED <<store, now, observers, eventListenerSet, notified, delivered,
                   probe, session, todos, timers, phase, hostListeners, keyTTL, wrote, mig, held, extAt>>

(* CachedStorage.SetTTL *)
SetTTL(k, d) ==
    /\ stack = <<>>
    /\ TTL' = MapSet(TTL, k, now + d)
    /\ setAt' = MapDel(setAt, k)
    /\ ttlSet' = Touched(ttlSet, k)
    /\ keyTTL' = Given(keyTTL, k, d)
    /\ stack' = <<Frame(1, "SetTTL", k, "", d, "return")>>
    /\ ncalls' = 1
    /\ UNCHANGED <<store, Cache, now, observers, eventListenerSet, notified,
                   delivered, probe, session, todos, timers, phase, hostListeners, wrote, mig, held, extAt>>

(* a call of Storage.SetItem / RemoveItem / Clear on the raw store *)
CallStorage(op, k, v) ==
    /\ stack = <<>>
    /\ stack' = <<Frame(1, op, k, v, 0, "store")>>
    /\ ncalls' = 1
    /\ UNCHANGED <<store, Cache, TTL, now, observers, eventListenerSet, notified,
                   delivered, probe, session, todos, timers, phase, hostListeners, keyTTL, wrote, mig, held, setAt, extAt, ttlSet>>

(* the histories of a store change made by the running operation *)
StoreHistory(f) ==
    /\ held' = Hold(held, store')
    /\ extAt' \in IF f.op \in {"CSetItem", "CRemoveItem", "CClear"} THEN {extAt}
                  ELSE Stamps(extAt, Changed(store, store'), now)

(* Storage.SetItem up to the first observer call *)
SetItemStore ==
    /\ At({"CSetItem", "SetItem"}, "store")
    /\ LET f == Top
           k == f.key
           e == [key |-> k, old |-> OldValue(k), new |-> f.value]
       IN  /\ store' = MapSet(store, k, f.value)
           /\ notified' = Append(notified, Note(f, e, StoreGetItem(store', k) = f.value))
           /\ SetTop([f EXCEPT !.at = "dispatch", !.ev = e, !.pending = DispatchList(k)])
           /\ StoreHistory(f)
    /\ UNCHANGED <<Cache, TTL, now, observers, eventListenerSet, delivered, ncalls,
                   probe, session, todos, timers, phase, hostListeners, keyTTL, wrote, mig, setAt, ttlSet>>

(* Storage.RemoveItem up to the first observer call *)
RemoveItemStore ==
    /\ At({"CRemoveItem", "RemoveItem"}, "store")
    /\ LET f == Top
           k == f.key
           e == [key |-> k, old |-> OldValue(k), new |-> ""]
       IN  /\ store' = MapDel(store, k)
           /\ notified' = Append(notified, Note(f, e, k \notin DOMAIN store'))
           /\ SetTop([f EXCEPT !.at = "dispatch", !.ev = e, !.pending = DispatchList(k)])
           /\ StoreHistory(f)
    /\ UNCHANGED <<Cache, TTL, now, observers, eventListenerSet, delivered, ncalls,
                   probe, session, todos, timers, phase, hostListeners, keyTTL, wrote, mig, setAt, ttlSet>>

(* Storage.Clear: keys := s.Keys(); clear *)
ClearStore ==
    /\ At({"CClear", "Clear"}, "store")
    /\ LET f == Top
       IN  /\ store' = EmptyMap
           /\ \E q \in Orderings(ClearKeys) :
                  SetTop([f EXCEPT !.at = "dispatch", !.keys = q,
                                   !.applied = (store' = EmptyMap)])
           /\ StoreHistory(f)
    /\ UNCHANGED <<Cache, TTL, now, observers, eventListenerSet, notified, delivered,
                   ncalls, probe, session, todos, timers, phase, hostListeners, keyTTL, wrote, mig, setAt, ttlSet>>

(* Storage.Clear: the next iteration of the loop over keys calls notifyObservers *)
ClearNext ==
    /\ At({"CClear", "Clear"}, "dispatch")
    /\ Top.pending = <<>>
    /\ Top.keys # <<>>
    /\ LET f == Top
           k == Head(f.keys)
           e == [key |-> k, old |-> ClearOldValue(k), new |-> ""]
       IN  /\ notified' = Append(notified, Note(f, e, f.applied))
           /\ SetTop([f EXCEPT !.ev = e, !.pending = DispatchList(k), !.keys = Tail(f.keys)])
    /\ UNCHANGED <<store, Cache, TTL, now, observers, eventListenerSet, delivered,
                   ncalls, probe, session, todos, timers, phase, hostListeners, keyTTL, wrote, mig, held, setAt, extAt, ttlSet>>

Dispatching == stack # <<>> /\ Top.at = "dispatch" /\ Top.pending # <<>>

(* notifyObservers calls the next observer, which returns *)
Invoke ==
    /\ Dispatching
    /\ delivered' = Append(delivered, Delivery(Top))
    /\ SetTop([Top EXCEPT !.pending = Tail(Top.pending)])
    /\ UNCHANGED <<store, Cache, TTL, now, observers, eventListenerSet, notified,
                   ncalls, probe, session, todos, timers, phase, hostListeners, keyTTL, wrote, mig, held, setAt, extAt, ttlSet>>

(* what an observer that calls back into the cache may write: observer L2   *)
(* calls CachedStorage.SetItem on the key of its event with another value   *)
Reentrant(l, e) == IF l = "L2" THEN {<<e.key, v>> : v \in Values \ {e.new}} ELSE {}

(* notifyObservers calls the next observer, which calls CachedStorage.SetItem *)
InvokeReentrant ==
    /\ Dispatching
    /\ Len(stack) < MaxDepth
    /\ delivered' = Append(delivered, Delivery(Top))
    /\ \E c \in Reentrant(Head(Top.pending), Top.ev) :
           EnterSetItem([stack EXCEPT ![Len(stack)] = [Top EXCEPT !.pending = Tail(Top.pending)]],
                        ncalls + 1, c[1], c[2])
    /\ UNCHANGED <<store, now, observers, eventListenerSet, notified, probe, session, todos, timers, phase, hostListeners, keyTTL,
                   wrote, mig, held, extAt>>

(* the operation returns to its caller *)
Return ==
    /\ stack # <<>>
    /\ Top.at = "return"
    /\ IF Len(stack) = 1
       THEN stack' = <<>> /\ notified' = <<>> /\ delivered' = <<>> /\ ncalls' = 0
       ELSE /\ stack' = [SubSeq(stack, 1, Len(stack) - 1) EXCEPT
                            ![Len(stack) - 1] = Settle(stack[Len(stack) - 1])]
            /\ UNCHANGED <<notified, delivered, ncalls>>
    /\ UNCHANGED <<store, Cache, TTL, now, observers, eventListenerSet, probe, session, todos, timers, phase, hostListeners, keyTTL, wrote, mig, held,
                   setAt, extAt, ttlSet>>

(* setupStorageEventListener: the flag, and the window's listeners: one more *)
(* unless the flag was set                                                   *)
SetupListener == TRUE
InstalledAlways == hostListeners + 1
Installed == IF eventListenerSet THEN hostListeners ELSE hostListeners + 1

NumObservers == Len(observers[Wildcard]) + Len(observers["k1"]) + Len(observers["k2"])

(* Storage.ObserveKey *)
ObserveKey(k, l) ==
    /\ stack = <<>>
    /\ NumObservers < MaxObservers
    /\ observers' = [observers EXCEPT ![k] = Append(@, l)]
    /\ eventListenerSet' = SetupListener
    /\ hostListeners' = Installed
    /\ UNCHANGED <<store, Cache, TTL, now, stack, notified, delivered, ncalls, probe, session, todos, timers, phase, keyTTL, wrote, mig,
                   held, setAt, extAt, ttlSet>>

(* Storage.ObserveAll *)
ObserveAll(l) ==
    /\ stack = <<>>
    /\ NumObservers < MaxObservers
    /\ observers' = [observers EXCEPT ![Wildcard] = Append(@, l)]
    /\ eventListenerSet' = SetupListener
    /\ hostListeners' = Installed
    /\ UNCHANGED <<store, Cache, TTL, now, stack, notified, delivered, ncalls, probe, session, todos, timers, phase, keyTTL, wrote, mig,
                   held, setAt, extAt, ttlSet>>

(* another execution context writes or removes a key of the shared store *)
ExternalWrite(k, v) ==
    /\ stack = <<>>
    /\ store' = MapSet(store, k, v)
    /\ held' = Hold(held, store')
    /\ extAt' \in Stamps(extAt, Changed(store, store'), now)
    /\ UNCHANGED <<Cache, TTL, now, observers, eventListenerSet, stack, notified,
                   delivered, ncalls, probe, session, todos, timers, phase, hostListeners, keyTTL, wrote, mig, setAt, ttlSet>>

ExternalRemove(k) ==
    /\ stack = <<>>
    /\ k \in DOMAIN store
    /\ store' = MapDel(store, k)
    /\ extAt' \in Stamps(extAt, Changed(store, store'), now)
    /\ UNCHANGED <<Cache, TTL, now, observers, eventListenerSet, stack, notified,
                   delivered, ncalls, probe, session, todos, timers, phase, hostListeners, keyTTL, wrote, mig, held, setAt, ttlSet>>

(* time passes *)
Tick ==
    /\ now < MaxTime
    /\ now' = now + 1
    /\ UNCHANGED <<store, Cache, TTL, observers, eventListenerSet, stack, notified,
                   delivered, ncalls, probe, session, todos, timers, phase, hostListeners, keyTTL, wrote, mig, held, setAt, extAt, ttlSet>>

(* the operations of CachedStorage, statement by statement *)
Operations ==
    \/ \E k \in Keys : CGetItem(k)
    \/ \E k \in Keys, v \in Values : CSetItem(k, v)
    \/ \E k \in Keys : CRemoveItem(k)
    \/ CClear
    \/ InvalidateCache
    \/ \E k \in Keys : InvalidateKey(k)
    \/ SetItemStore
    \/ RemoveItemStore
    \/ ClearStore
    \/ ClearNext
    \/ Return

(* the cache in time: expiry, SetTTL and other writers of the store *)
Next ==
    \/ Operations
    \/ \E k \in Keys, d \in TTLChoices : SetTTL(k, d)
    \/ \E k \in Keys, v \in Values : ExternalWrite(k, v)
    \/ \E k \in Keys : ExternalRemove(k)
    \/ Tick

Spec == Init /\ [][Next]_vars

SpecHeld == InitHeld /\ [][Next]_vars

SpecStale == InitStale /\ [][Next]_vars

InitKeyTTL ==
    /\ probe = "keyTTL"
    /\ InitProgram

SpecKeyTTL == InitKeyTTL /\ [][Next]_vars

(* the cache and the raw store with observers, which may call back *)
NextNotify ==
    \/ Operations
    \/ \E k \in Keys, v \in Values : CallStorage("SetItem", k, v)
    \/ \E k \in Keys : CallStorage("RemoveItem", k, "")
    \/ CallStorage("Clear", "", "")
    \/ \E k \in Keys, l \in Observers : ObserveKey(k, l)
    \/ \E l \in Observers : ObserveAll(l)
    \/ Invoke
    \/ InvokeReentrant

SpecNotify == InitNotify /\ [][NextNotify]_vars

----------------------------------------------------------------------------
(* The typed accessors *)

(* GetBool: "" and a text ParseBool rejects give the default *)
GetBoolDefault(value, d) == d
GetBoolResult(value, d) ==
    IF value = "" THEN d
    ELSE IF ParseBool(value).err THEN d
    ELSE ParseBool(value).val

(* Storage.GetInt, GetFloat, GetTime *)
GetIntResult(value, d) ==
    IF value = "" THEN d
    ELSE IF Atoi(value).err THEN d
    ELSE Atoi(value).val
GetFloatResult(value, d) ==
    IF value = "" THEN d
    ELSE IF ParseFloat(value).err THEN d
    ELSE ParseFloat(value).val
GetTimeResult(value, d) ==
    IF value = "" THEN d
    ELSE IF ParseInt(value).err THEN d
    ELSE ParseInt(value).val

(* GetJSON: "" returns nil and leaves the target; otherwise json.Unmarshal *)
GetJSONResult(value, t) ==
    IF value = "" THEN [err |-> FALSE, val |-> t] ELSE Unmarshal(value, t)

(* SetJSON: if err != nil { return err } *)
EncodeFailedIgnored(m) == FALSE
EncodeFailed(m) == m.err

Typed(kind, v) == [kind |-> kind, val |-> v]
Wrote(m, k, kind, v) ==
    IF probe = "typed" THEN MapSet(m, k, [kind |-> kind, val |-> v, at |-> now]) ELSE m

(* CachedStorage.SetBool: c.SetItem(key, strconv.FormatBool(value)) *)
CSetBool(k, b) ==
    /\ stack = <<>>
    /\ EnterSetItem(<<>>, 1, k, FormatBool(b))
    /\ wrote' = Wrote(wrote, k, "bool", b)
    /\ UNCHANGED <<store, now, observers, eventListenerSet, notified, delivered,
                   probe, session, todos, timers, phase, hostListeners, keyTTL, mig, held, extAt>>

(* CachedStorage.GetBool *)
CGetBool(k, d) ==
    /\ stack = <<>>
    /\ Cache' = GetItemCache(k)
    /\ TTL' = GetItemTTL(k)
    /\ setAt' = IF CacheHit(k) THEN setAt ELSE MapDel(setAt, k)
    /\ stack' = <<[Frame(1, "CGetBool", k, "", 0, "return")
                     EXCEPT !.ret = GetItemValue(k), !.reads = GetItemReads(k),
                            !.arg = Typed("bool", d),
                            !.out = Typed("bool", GetBoolResult(GetItemValue(k), d))]>>
    /\ ncalls' = 1
    /\ UNCHANGED <<store, now, observers, eventListenerSet, notified, delivered,
                   probe, session, todos, timers, phase, hostListeners, keyTTL, wrote, mig, held, extAt, ttlSet>>

(* CachedStorage.SetJSON *)
CSetJSON(k, v) ==
    /\ stack = <<>>
    /\ LET m == Marshal(v)
       IN  IF EncodeFailed(m)
           THEN /\ stack' = <<[Frame(1, "CSetJSON", k, "", 0, "return")
                                 EXCEPT !.arg = v, !.err = TRUE]>>
                /\ ncalls' = 1
                /\ UNCHANGED <<Cache, TTL, setAt, ttlSet, wrote>>
           ELSE /\ EnterSetItem(<<>>, 1, k, m.data)
                /\ wrote' = Wrote(wrote, k, "json", v)
    /\ UNCHANGED <<store, now, observers, eventListenerSet, notified, delivered,
                   probe, session, todos, timers, phase, hostListeners, keyTTL, mig, held, extAt>>

(* CachedStorage.GetJSON with a target that holds t *)
CGetJSON(k, t) ==
    /\ stack = <<>>
    /\ Cache' = GetItemCache(k)
    /\ TTL' = GetItemTTL(k)
    /\ setAt' = IF CacheHit(k) THEN setAt ELSE MapDel(setAt, k)
    /\ LET r == GetJSONResult(GetItemValue(k), t)
       IN  stack' = <<[Frame(1, "CGetJSON", k, "", 0, "return")
                         EXCEPT !.ret = GetItemValue(k), !.reads = GetItemReads(k),
                                !.arg = t, !.out = r.val, !.err = r.err]>>
    /\ ncalls' = 1
    /\ UNCHANGED <<store, now, observers, eventListenerSet, notified, delivered,
                   probe, session, todos, timers, phase, hostListeners, keyTTL, wrote, mig, held, extAt, ttlSet>>

(* Storage.SetInt: s.SetItem(key, strconv.Itoa(value)) *)
SetInt(k, n) ==
    /\ stack = <<>>
    /\ stack' = <<Frame(1, "SetItem", k, Itoa(n), 0, "store")>>
    /\ ncalls' = 1
    /\ wrote' = Wrote(wrote, k, "int", n)
    /\ UNCHANGED <<store, Cache, TTL, now, observers, eventListenerSet, notified,
                   delivered, probe, session, todos, timers, phase, hostListeners, keyTTL, mig, held, setAt, extAt, ttlSet>>

(* Storage.SetJSON *)
SetJSON(k, v) ==
    /\ stack = <<>>
    /\ LET m == Marshal(v)
       IN  IF EncodeFailed(m)
           THEN /\ stack' = <<[Frame(1, "SetJSON", k, "", 0, "return")
                                 EXCEPT !.arg = v, !.err = TRUE]>>
                /\ wrote' = wrote
           ELSE /\ stack' = <<Frame(1, "SetItem", k, m.data, 0, "store")>>
                /\ wrote' = Wrote(wrote, k, "rawjson", v)
    /\ ncalls' = 1
    /\ UNCHANGED <<store, Cache, TTL, now, observers, eventListenerSet, notified,
                   delivered, probe, session, todos, timers, phase, hostListeners, keyTTL, mig, held, setAt, extAt, ttlSet>>

(* Storage.GetInt, GetFloat, GetTime: a read of the store and a parse *)
GetTyped(op, k, d, result) ==
    /\ stack = <<>>
    /\ stack' = <<[Frame(1, op, k, "", 0, "return")
                     EXCEPT !.ret = StoreGetItem(store, k), !.reads = 1,
                            !.arg = Typed("int", d), !.out = Typed("int", result)]>>
    /\ ncalls' = 1
    /\ UNCHANGED <<store, Cache, TTL, now, observers, eventListenerSet, notified,
                   delivered, probe, session, todos, timers, phase, hostListeners, keyTTL, wrote, mig, held, setAt, extAt, ttlSet>>

GetInt(k, d) == GetTyped("GetInt", k, d, GetIntResult(StoreGetItem(store, k), d))
GetFloat(k, d) == GetTyped("GetFloat", k, d, GetFloatResult(StoreGetItem(store, k), d))
GetTime(k, d) == GetTyped("GetTime", k, d, GetTimeResult(StoreGetItem(store, k), d))

(* another execution context stores a text no typed setter produces *)
ExternalText(k, s) ==
    /\ stack = <<>>
    /\ store' = MapSet(store, k, s)
    /\ wrote' = MapDel(wrote, k)
    /\ UNCHANGED <<Cache, TTL, now, observers, eventListenerSet, stack, notified,
                   delivered, ncalls, probe, session, todos, timers, phase, hostListeners, keyTTL, mig, held, setAt, extAt, ttlSet>>

InitTyped ==
    /\ probe = "typed"
    /\ InitProgram

(* the typed accessors over one key, in time *)
NextTyped ==
    \/ \E b \in BOOLEAN : CSetBool(TypedKey, b)
    \/ \E d \in BOOLEAN : CGetBool(TypedKey, d)
    \/ \E v \in JSONValues \cup {Unencodable} : CSetJSON(TypedKey, v)
    \/ \E v \in JSONValues : CGetJSON(TypedKey, v)
    \/ \E n \in Ints : SetInt(TypedKey, n)
    \/ \E v \in JSONValues \cup {Unencodable} : SetJSON(TypedKey, v)
    \/ \E d \in Ints : GetInt(TypedKey, d)
    \/ \E d \in Ints : GetFloat(TypedKey, d)
    \/ \E d \in Ints : GetTime(TypedKey, d)
    \/ \E s \in Malformed : ExternalText(TypedKey, s)
    \/ SetItemStore
    \/ Return
    \/ Tick

SpecTyped == InitTyped /\ [][NextTyped]_vars

----------------------------------------------------------------------------
(* StorageMigrator *)

(* NewStorageMigrator: CurrentVersionKey *)
VersionKey == "schemaVersion"

(* GetCurrentVersion: m.Storage.GetInt(m.CurrentVersionKey, 0) *)
Version(s) == GetIntResult(StoreGetItem(s, VersionKey), 0)

(* RunMigration: if currentVersion < targetVersion *)
NeedsMigrationAlways(current, target) == TRUE
NeedsMigration(current, target) == current < target

(* RunMigration: migrationFunc(currentVersion, targetVersion) *)
BodyArgsSwapped(current, target) == [from |-> target, to |-> current]
BodyArgs(current, target) == [from |-> current, to |-> target]

(* RunMigration: if err != nil { return err }, else SetCurrentVersion is next *)
AfterBodyIgnoringError(failed) == "store"
AfterBody(failed) == IF failed THEN "return" ELSE "store"

(* histories of the runs: the run that starts, and the run before it *)
Started(target, current, calls) ==
    IF probe # "migrate" THEN mig
    ELSE [target |-> target, from |-> current, invoked |-> calls,
          body |-> IF calls = <<>> THEN "none" ELSE "running",
          end |-> store,
          last |-> [target |-> mig.target, result |-> mig.body,
                    invoked |-> Len(mig.invoked), store |-> mig.end]]
Ended(result, s) ==
    IF probe # "migrate" THEN mig ELSE [mig EXCEPT !.body = result, !.end = s]

(* RunMigration up to the call of the migration body *)
EnterRunMigration(target) ==
    /\ stack = <<>>
    /\ LET current == Version(store)
           needed == NeedsMigration(current, target)
       IN  /\ stack' = <<[Frame(1, "RunMigration", VersionKey, "", 0,
                                IF needed THEN "body" ELSE "return")
                            EXCEPT !.arg = Typed("int", target)]>>
           /\ mig' = Started(target, current,
                             IF needed THEN <<BodyArgs(current, target)>> ELSE <<>>)
    /\ ncalls' = 1
    /\ UNCHANGED <<store, Cache, TTL, now, observers, eventListenerSet, notified,
                   delivered, probe, session, keyTTL, wrote, held, setAt, extAt, ttlSet>>

RunMigration(target) ==
    /\ EnterRunMigration(target)
    /\ UNCHANGED <<todos, timers, phase, hostListeners>>

(* the migration body saves migrated data through the cache *)
BodyWrite(k, v) ==
    /\ At({"RunMigration"}, "body")
    /\ Len(stack) < MaxDepth
    /\ ncalls <= MaxWrites
    /\ EnterSetItem(stack, ncalls + 1, k, v)
    /\ mig' = Ended("running", store)
    /\ UNCHANGED <<store, now, observers, eventListenerSet, notified, delivered,
                   probe, session, todos, timers, phase, hostListeners, keyTTL, wrote, held, extAt>>

(* the migration body returns nil or an error *)
BodyReturn(failed) ==
    /\ At({"RunMigration"}, "body")
    /\ SetTop([Top EXCEPT !.at = AfterBody(failed),
                          !.err = (failed /\ AfterBody(failed) = "return")])
    /\ mig' = Ended(IF failed THEN "err" ELSE "ok", store)
    /\ UNCHANGED <<store, Cache, TTL, now, observers, eventListenerSet, notified,
                   delivered, ncalls, probe, session, todos, timers, phase, hostListeners, keyTTL, wrote, held, setAt, extAt, ttlSet>>

(* SetCurrentVersion: m.Storage.SetInt(m.CurrentVersionKey, version), up to  *)
(* the first observer call of Storage.SetItem                                *)
SetCurrentVersion ==
    /\ At({"RunMigration"}, "store")
    /\ LET f == Top
           data == Itoa(f.arg.val)
           e == [key |-> VersionKey, old |-> OldValue(VersionKey), new |-> data]
       IN  /\ store' = MapSet(store, VersionKey, data)
           /\ notified' = Append(notified, Note(f, e, StoreGetItem(store', VersionKey) = data))
           /\ SetTop([f EXCEPT !.at = "dispatch", !.ev = e, !.pending = DispatchList(VersionKey)])
           /\ mig' = Ended(mig.body, store')
    /\ UNCHANGED <<Cache, TTL, now, observers, eventListenerSet, delivered, ncalls,
                   probe, session, todos, timers, phase, hostListeners, keyTTL, wrote, held, setAt, extAt, ttlSet>>

InitMigrate ==
    /\ probe = "migrate"
    /\ InitProgram

(* migrations, and writes, removals and clears of the cache between them *)
NextMigrate ==
    \/ \E target \in Targets : RunMigration(target)
    \/ \E v \in Values : BodyWrite(TypedKey, v)
    \/ \E failed \in BOOLEAN : BodyReturn(failed)
    \/ SetCurrentVersion
    \/ \E v \in Values : CSetItem(TypedKey, v)
    \/ CRemoveItem(TypedKey)
    \/ CClear
    \/ SetItemStore
    \/ RemoveItemStore
    \/ ClearStore
    \/ ClearNext
    \/ Return

SpecMigrate == InitMigrate /\ [][NextMigrate]_vars

----------------------------------------------------------------------------
(* The todo application (package main) over the cached storage *)

(* the storage key of the list; the schema version initialize asks for *)
TodosKey == "gowasm-todos"
SchemaTarget == 2

(* the pending SetTimeout callbacks, and the todos of a list *)
MaxTimers == 2
MaxItems == 4

(* the fields of Todo in the order of the struct, by their json names *)
Fields == <<"id", "text", "completed", "createdAt", "position", "priority", "tags">>

(* json.Marshal of a list of objects.  An object is a function from field   *)
(* names to values; the values are strings, booleans, numbers, null and     *)
(* lists of strings                                                         *)
RECURSIVE Join(_, _)
Join(q, sep) == IF Len(q) = 0 THEN ""
                ELSE IF Len(q) = 1 THEN q[1]
                ELSE q[1] \o sep \o Join(Tail(q), sep)
Quote(s) == Marshal(Typed("str", s)).data
EncodeValue(v) ==
    IF v.kind = "strs"
    THEN "[" \o Join([i \in 1..Len(v.val) |-> Quote(v.val[i])], ",") \o "]"
    ELSE Marshal(v).data
PresentFields(obj) == SelectSeq(Fields, LAMBDA f : f \in DOMAIN obj)
EncodeObject(obj) ==
    LET names == PresentFields(obj)
    IN  "{" \o Join([i \in 1..Len(names) |->
                       Quote(names[i]) \o ":" \o EncodeValue(obj[names[i]])], ",") \o "}"
EncodeList(q) == "[" \o Join([i \in 1..Len(q) |-> EncodeObject(q[i])], ",") \o "]"

(* json.Marshal of a Todo and of the slice todos *)
TodoObject(t) ==
    [id |-> Typed("str", t.id), text |-> Typed("str", t.text),
     completed |-> Typed("bool", t.completed), createdAt |-> Typed("num", t.createdAt),
     position |-> Typed("num", t.position), priority |-> Typed("num", t.priority),
     tags |-> t.tags]
MarshalTodos(q) == EncodeList([i \in 1..Len(q) |-> TodoObject(q[i])])

(* migrateTodoSchema: oldTodo[f].(T) does not panic: the field is there and *)
(* holds a value of type T (json numbers decode to float64)                 *)
Asserts(m, f, kind) == f \in DOMAIN m /\ m[f].kind = kind
Convertible(m) ==
    /\ Asserts(m, "id", "str")
    /\ Asserts(m, "text", "str")
    /\ Asserts(m, "completed", "bool")
    /\ Asserts(m, "createdAt", "num")

(* migrateTodoSchema: the Todo made of the record at Go index i - 1; the    *)
(* numbers of these lists are whole, so int64(float64) keeps them           *)
NewTodoFromOne(i, m) ==
    [id |-> m["id"].val, text |-> m["text"].val, completed |-> m["completed"].val,
     createdAt |-> m["createdAt"].val, position |-> i, priority |-> 0,
     tags |-> Typed("strs", <<>>)]
NewTodo(i, m) ==
    [id |-> m["id"].val, text |-> m["text"].val, completed |-> m["completed"].val,
     createdAt |-> m["createdAt"].val, position |-> i - 1, priority |-> 0,
     tags |-> Typed("strs", <<>>)]
NewTodos(old) == [i \in 1..Len(old) |-> NewTodo(i, old[i])]

(* the lists a store holds when the program starts: records of the legacy   *)
(* schema, among them one without text and one whose createdAt is a string, *)
(* and records that carry position, priority and tags                       *)
Legacy(id, text, completed, createdAt) ==
    [id |-> Typed("str", id), text |-> Typed("str", text),
     completed |-> Typed("bool", completed), createdAt |-> Typed("num", createdAt)]
LegacyLists ==
    {<<>>,
     <<Legacy("1", "a", FALSE, 100)>>,
     <<Legacy("1", "a", FALSE, 100), Legacy("2", "b", TRUE, 200)>>,
     <<Legacy("1", "a", FALSE, 100), Legacy("2", "b", TRUE, 200),
       Legacy("3", "a", FALSE, 300), Legacy("4", "b", FALSE, 400)>>}
BrokenLists ==
    {<<Legacy("1", "a", FALSE, 100), MapDel(Legacy("2", "b", TRUE, 200), "text")>>,
     <<[Legacy("1", "a", FALSE, 100) EXCEPT !.createdAt = Typed("str", "100")]>>}
CurrentLists ==
    {<<TodoObject([id |-> "1", text |-> "a", completed |-> FALSE, createdAt |-> 100,
                   position |-> 1, priority |-> 2, tags |-> Typed("strs", <<"x">>)]),
       TodoObject([id |-> "2", text |-> "b", completed |-> TRUE, createdAt |-> 200,
                   position |-> 0, priority |-> 0, tags |-> Typed("strs", <<>>)])>>}
NotALists == {"x"}

(* the lists whose text the program reads: those, and the migrated ones *)
Lists == LegacyLists \cup BrokenLists \cup CurrentLists
             \cup {[i \in 1..Len(q) |-> TodoObject(NewTodos(q)[i])] :
                       q \in LegacyLists \cup CurrentLists}

(* json.Unmarshal into []map[string]interface{}: the text of a list of      *)
(* objects decodes to that list, any other text is an error                 *)
UnmarshalMaps(s) ==
    IF \E q \in Lists : EncodeList(q) = s
    THEN [err |-> FALSE, val |-> CHOOSE q \in Lists : EncodeList(q) = s]
    ELSE [err |-> TRUE, val |-> <<>>]

(* json.Unmarshal into []Todo: a field of another type than the struct's is *)
(* an error, a field the text lacks is the zero value                       *)
Zero(f) == CASE f \in {"id", "text"} -> Typed("str", "")
             [] f = "completed" -> Typed("bool", FALSE)
             [] f = "tags" -> Null
             [] OTHER -> Typed("num", 0)
Field(m, f) == IF f \in DOMAIN m THEN m[f] ELSE Zero(f)
Fits(m, f) == Field(m, f).kind = Zero(f).kind \/ (f = "tags" /\ Field(m, f).kind = "strs")
AsTodo(m) ==
    [id |-> Field(m, "id").val, text |-> Field(m, "text").val,
     completed |-> Field(m, "completed").val, createdAt |-> Field(m, "createdAt").val,
     position |-> Field(m, "position").val, priority |-> Field(m, "priority").val,
     tags |-> Field(m, "tags")]
UnmarshalTodos(s) ==
    LET r == UnmarshalMaps(s)
    IN  IF r.err \/ \E i \in 1..Len(r.val) : \E j \in 1..Len(Fields) : ~Fits(r.val[i], Fields[j])
        THEN [err |-> TRUE, val |-> <<>>]
        ELSE [err |-> FALSE, val |-> [i \in 1..Len(r.val) |-> AsTodo(r.val[i])]]

(* sortTodosByPosition: bubble sort.  Pass i compares the neighbours j, j+1 *)
(* for j < n-i-1 and swaps them when the first has the greater position;    *)
(* indexes are counted from 1 here                                          *)
OutOfOrderOrLevel(a, b) == a.position >= b.position

OutOfOrder(a, b) == a.position > b.position

Swap(q, j) == [q EXCEPT ![j] = q[j + 1], ![j + 1] = q[j]]

RECURSIVE BubblePass(_, _, _)
BubblePass(q, j, last) ==
    IF j > last THEN q
    ELSE BubblePass(IF OutOfOrder(q[j], q[j + 1]) THEN Swap(q, j) ELSE q, j + 1, last)

RECURSIVE BubblePasses(_, _)
BubblePasses(q, i) ==
    IF i >= Len(q) - 1 THEN q
    ELSE BubblePasses(BubblePass(q, 1, Len(q) - i - 1), i + 1)

SortTodosByPosition(q) == BubblePasses(q, 0)

(* a panic no function recovers from: the calls in progress are abandoned   *)
(* and the program exits                                                    *)
Panic(below) == Append(below, Frame(0, "panic", "", "", 0, "exit"))
Panicked == stack # <<>> /\ Top.op = "panic"

(* the drop handler of setupDraggableItem: the positions after the move *)
PositionOf(q, id) ==
    IF \E i \in 1..Len(q) : q[i].id = id
    THEN q[CHOOSE i \in 1..Len(q) : q[i].id = id /\ \A j \in (i + 1)..Len(q) : q[j].id # id].position
    ELSE 0
MovedDownKept(p, sp, tp) == p
MovedDown(p, sp, tp) == IF p > sp /\ p <= tp THEN p - 1 ELSE p
MovedUpKept(p, sp, tp) == p
MovedUp(p, sp, tp) == IF p >= tp /\ p < sp THEN p + 1 ELSE p
Reconcile(q, source, target) ==
    LET sp == PositionOf(q, source)
        tp == PositionOf(q, target)
    IN  [i \in 1..Len(q) |->
            [q[i] EXCEPT !.position =
                IF q[i].id = source THEN tp
                ELSE IF sp < tp THEN MovedDown(@, sp, tp)
                ELSE MovedUp(@, sp, tp)]]

(* deleteTodo: append(todos[:index], todos[index+1:]...), index counted from 1 *)
RemoveAt(q, index) == SubSeq(q, 1, index - 1) \o SubSeq(q, index + 1, Len(q))

(* the ids of the todos of these lists, and the ids in a list *)
TodoIds == {"1", "2", "3", "4"}
Ids(q) == {q[i].id : i \in 1..Len(q)}

(* the stores the program may find at its start *)
StoredAs(version, text) ==
    LET s == IF version = "" THEN EmptyMap ELSE MapSet(EmptyMap, VersionKey, version)
    IN  IF text = "" THEN s ELSE MapSet(s, TodosKey, text)
StartStores ==
    {StoredAs("", text) : text \in {""} \cup NotALists
                                  \cup {EncodeList(q) : q \in LegacyLists \cup BrokenLists \cup CurrentLists}}
    \cup {StoredAs("1", EncodeList(q)) : q \in CurrentLists}
    \cup {StoredAs("2", text) : text \in {""} \cup {EncodeList(q) : q \in CurrentLists}}

InitApp ==
    /\ probe = "app"
    /\ store \in StartStores
    /\ Cache = EmptyMap
    /\ TTL = EmptyMap
    /\ now = 0
    /\ observers = [k \in Keys \cup {Wildcard} |-> <<>>]
    /\ eventListenerSet = FALSE
    /\ stack = <<>>
    /\ notified = <<>>
    /\ delivered = <<>>
    /\ ncalls = 0
    /\ held = [k \in Keys |-> {}]
    /\ setAt = EmptyMap
    /\ extAt = EmptyMap
    /\ ttlSet = {}
    /\ keyTTL = EmptyMap
    /\ wrote = EmptyMap
    /\ mig = NoMigration
    /\ todos = <<>>
    /\ timers = <<>>
    /\ phase = "start"
    /\ hostListeners = 0
    /\ session = EmptyMap

(* initialize: migrator.RunMigration(2, migrateTodoSchema), up to the body *)
Initialize ==
    /\ phase = "start"
    /\ EnterRunMigration(SchemaTarget)
    /\ phase' = "initialize"
    /\ UNCHANGED <<todos, timers, hostListeners>>

(* migrateTodoSchema up to its return or, when it saves, up to the call of  *)
(* Storage.SetItem that saveTodos ends in; the body returns nil after the   *)
(* save whatever saveTodos returned.  The entry GetJSON caches for the key  *)
(* is the one the save overwrites.                                          *)
MigrateTodoSchema ==
    /\ At({"RunMigration"}, "body")
    /\ LET f == Top
           value == GetItemValue(TodosKey)
           r == IF value = "" THEN [err |-> FALSE, val |-> <<>>] ELSE UnmarshalMaps(value)
           args == BodyArgs(Version(store), f.arg.val)
           returns(failed) == [stack EXCEPT ![Len(stack)] =
                                  [f EXCEPT !.at = AfterBody(failed),
                                            !.err = (failed /\ AfterBody(failed) = "return")]]
           read(s) == /\ Cache' = GetItemCache(TodosKey)
                      /\ TTL' = GetItemTTL(TodosKey)
                      /\ setAt' = IF CacheHit(TodosKey) THEN setAt ELSE MapDel(setAt, TodosKey)
                      /\ stack' = s
                      /\ UNCHANGED <<todos, ttlSet, ncalls>>
       IN  IF r.err THEN read(returns(TRUE))
           ELSE IF Len(r.val) = 0 THEN read(returns(FALSE))
           ELSE IF args.from < 2 /\ args.to >= 2
                THEN IF \E i \in 1..Len(r.val) : ~Convertible(r.val[i])
                     THEN read(Panic(stack))
                     ELSE /\ todos' = NewTodos(r.val)
                          /\ EnterSetItem(returns(FALSE), ncalls + 1, TodosKey, MarshalTodos(todos'))
           ELSE read(returns(FALSE))
    /\ UNCHANGED <<store, now, observers, eventListenerSet, notified, delivered,
                   probe, session, timers, phase, hostListeners, keyTTL, wrote, mig, held, extAt>>

(* initialize: loadTodos, after RunMigration has returned, its error unread *)
LoadTodos ==
    /\ phase = "initialize"
    /\ stack = <<>>
    /\ LET value == GetItemValue(TodosKey)
           r == IF value = "" THEN [err |-> FALSE, val |-> todos] ELSE UnmarshalTodos(value)
       IN  todos' = SortTodosByPosition(IF r.err THEN <<>> ELSE r.val)
    /\ Cache' = GetItemCache(TodosKey)
    /\ TTL' = GetItemTTL(TodosKey)
    /\ setAt' = IF CacheHit(TodosKey) THEN setAt ELSE MapDel(setAt, TodosKey)
    /\ stack' = <<[Frame(1, "loadTodos", TodosKey, "", 0, "return")
                     EXCEPT !.ret = GetItemValue(TodosKey), !.reads = GetItemReads(TodosKey)]>>
    /\ ncalls' = 1
    /\ phase' = "running"
    /\ UNCHANGED <<store, now, observers, eventListenerSet, notified, delivered,
                   probe, session, timers, hostListeners, keyTTL, wrote, mig, held, extAt, ttlSet>>

(* a handler that changed todos calls saveTodos: up to the call of          *)
(* Storage.SetItem; what the handler does after the save is to the document *)
Save(op, k, v) ==
    EnterSetItem(<<Frame(1, op, k, v, 0, "return")>>, 2, TodosKey, MarshalTodos(todos'))

(* a pending SetTimeout callback: the function that scheduled it and the    *)
(* index its closure captured; id is the todo deleteTodo was called for     *)
Timer(op, index, id) == [op |-> op, index |-> index, id |-> id]

(* deleteTodo: the index of the todo is found and the removal is scheduled *)
DeleteTodo(id) ==
    /\ phase = "running"
    /\ stack = <<>>
    /\ \E i \in 1..Len(todos) : todos[i].id = id
    /\ Len(timers) < MaxTimers
    /\ timers' = Append(timers, Timer("deleteTodo",
                                      CHOOSE i \in 1..Len(todos) :
                                          todos[i].id = id /\ \A j \in 1..(i - 1) : todos[j].id # id,
                                      id))
    /\ UNCHANGED <<store, Cache, TTL, now, observers, eventListenerSet, stack, notified,
                   delivered, ncalls, probe, session, todos, phase, hostListeners, keyTTL, wrote,
                   mig, held, setAt, extAt, ttlSet>>

(* deleteTodo: the scheduled callback removes the todo at the index found   *)
(* then; todos[index+1:] panics when the slice has become too short         *)
DeleteTimeout ==
    /\ phase = "running"
    /\ stack = <<>>
    /\ timers # <<>>
    /\ Head(timers).op = "deleteTodo"
    /\ timers' = Tail(timers)
    /\ IF Head(timers).index > Len(todos)
       THEN /\ stack' = Panic(<<Frame(1, "deleteTodo", Head(timers).id, "", 0, "return")>>)
            /\ UNCHANGED <<todos, Cache, TTL, setAt, ttlSet, ncalls>>
       ELSE /\ todos' = RemoveAt(todos, Head(timers).index)
            /\ Save("deleteTodo", Head(timers).id, "")
    /\ UNCHANGED <<store, now, observers, eventListenerSet, notified, delivered,
                   probe, session, phase, hostListeners, keyTTL, wrote, mig, held, extAt>>

(* the drop handler returns at once when the item is dropped on itself *)
DroppedOnSelfNever(source, target) == FALSE

DroppedOnSelf(source, target) == source = target

(* the drop handler of the item of target, which is in the list shown: the  *)
(* source is the text of the drag, the id of an item when the drag started  *)
Drop(source, target) ==
    /\ phase = "running"
    /\ stack = <<>>
    /\ target \in Ids(todos)
    /\ IF DroppedOnSelf(source, target)
       THEN /\ stack' = <<Frame(1, "drop", source, target, 0, "return")>>
            /\ ncalls' = 1
            /\ UNCHANGED <<todos, Cache, TTL, setAt, ttlSet>>
       ELSE /\ todos' = Reconcile(todos, source, target)
            /\ Save("drop", source, target)
    /\ UNCHANGED <<store, now, observers, eventListenerSet, notified, delivered,
                   probe, session, timers, phase, hostListeners, keyTTL, wrote, mig, held, extAt>>

(* the program from its start: initialize, then deletions and drops *)
NextApp ==
    \/ Initialize
    \/ MigrateTodoSchema
    \/ SetCurrentVersion
    \/ LoadTodos
    \/ \E id \in TodoIds : DeleteTodo(id)
    \/ DeleteTimeout
    \/ \E source \in TodoIds, target \in TodoIds : Drop(source, target)
    \/ SetItemStore
    \/ Return

SpecApp == InitApp /\ [][NextApp]_vars

-----------------------------------------------------------------------------
(* The handlers that add, edit, toggle and clear todos.  The text typed is  *)
(* a sequence of characters.                                                *)

(* strings.Index, counted from 1, 0 when pat does not occur *)
Index(c, pat) ==
    LET hits == {i \in 1..(Len(c) - Len(pat) + 1) : SubSeq(c, i, i + Len(pat) - 1) = pat}
    IN  IF hits = {} THEN 0 ELSE CHOOSE i \in hits : \A j \in hits : i <= j

(* strings.Contains(text, pat); strings.Replace(text, pat, "", 1) *)
Contains(c, pat) == Index(c, pat) # 0
RemoveFirst(c, pat) ==
    IF Contains(c, pat)
    THEN SubSeq(c, 1, Index(c, pat) - 1) \o SubSeq(c, Index(c, pat) + Len(pat), Len(c))
    ELSE c

(* strings.Fields: the words between runs of spaces *)
RECURSIVE FieldsOf(_)
FieldsOf(c) ==
    IF c = <<>> THEN <<>>
    ELSE IF Head(c) = " " THEN FieldsOf(Tail(c))
    ELSE LET spaces == {i \in 1..Len(c) : c[i] = " "}
             end == IF spaces = {} THEN Len(c) + 1
                    ELSE CHOOSE i \in spaces : \A j \in spaces : i <= j
         IN  <<SubSeq(c, 1, end - 1)>> \o FieldsOf(SubSeq(c, end, Len(c)))

(* strings.HasPrefix(word, "#"); strings.Join(words, " "); strings.TrimSpace *)
HasPrefix(w, ch) == w # <<>> /\ Head(w) = ch
RECURSIVE JoinWords(_)
JoinWords(ws) ==
    IF ws = <<>> THEN <<>>
    ELSE IF Len(ws) = 1 THEN Head(ws)
    ELSE Head(ws) \o <<" ">> \o JoinWords(Tail(ws))
RECURSIVE TrimSpace(_)
TrimSpace(c) ==
    IF c = <<>> THEN c
    ELSE IF Head(c) = " " THEN TrimSpace(Tail(c))
    ELSE IF c[Len(c)] = " " THEN TrimSpace(SubSeq(c, 1, Len(c) - 1))
    ELSE c

(* processTodoText: the first "!!!", then the first "!!", then the first    *)
(* "!" are removed, then the words that start with "#"                      *)
ProcessTodoText(c) ==
    LET marked == RemoveFirst(RemoveFirst(RemoveFirst(c, <<"!", "!", "!">>), <<"!", "!">>), <<"!">>)
        Kept(w) == ~HasPrefix(w, "#")
    IN  Implode(TrimSpace(JoinWords(SelectSeq(FieldsOf(marked), Kept))))

(* extractPriority *)
ExtractPriority(c) ==
    IF Contains(c, <<"!", "!", "!">>) THEN 3
    ELSE IF Contains(c, <<"!", "!">>) THEN 2
    ELSE IF Contains(c, <<"!">>) THEN 1
    ELSE 0

(* extractTags: the words that start with "#", without it, unless empty *)
ExtractTags(c) ==
    LET IsTag(w) == HasPrefix(w, "#") /\ Tail(w) # <<>>
        tagged == SelectSeq(FieldsOf(c), IsTag)
    IN  Typed("strs", [i \in 1..Len(tagged) |-> Implode(Tail(tagged[i]))])

(* the texts typed *)
TypedTexts == {<<"c", " ", "!", "!", " ", "#", "x">>}

(* strconv.FormatInt(time.Now().UnixNano(), 10) on a clock of whole seconds *)
UnixNano(t) == IF t = 0 THEN "0" ELSE Itoa(t) \o "000000000"

(* addTodo: the highest position, from 0 *)
HighestPosition(q) ==
    LET ps == {q[i].position : i \in 1..Len(q)} \cup {0}
    IN  CHOOSE p \in ps : \A r \in ps : r <= p

(* the calls of addTodo, and the ids of the todos the handlers are called   *)
(* for                                                                      *)
MaxAdds == 1
EditIds == {"1", "2"} \cup {UnixNano(t) : t \in 1..MaxAdds}

(* addTodo, the clock read after the time it took to type the text *)
AddTodo(text) ==
    /\ phase = "running"
    /\ stack = <<>>
    /\ text # <<>>
    /\ now < MaxAdds
    /\ now' = now + 1
    /\ todos' = Append(todos, [id |-> UnixNano(now'), text |-> ProcessTodoText(text),
                               completed |-> FALSE, createdAt |-> now',
                               position |-> HighestPosition(todos) + 1,
                               priority |-> ExtractPriority(text),
                               tags |-> ExtractTags(text)])
    /\ Save("addTodo", UnixNano(now'), "")
    /\ UNCHANGED <<store, observers, eventListenerSet, notified, delivered,
                   probe, session, timers, phase, hostListeners, keyTTL, wrote, mig, held, extAt>>

(* the index of the first todo with this id *)
FirstIndex(q, id) ==
    CHOOSE i \in 1..Len(q) : q[i].id = id /\ \A j \in 1..(i - 1) : q[j].id # id

(* toggleTodo of a todo of the list *)
ToggleTodo(id) ==
    /\ phase = "running"
    /\ stack = <<>>
    /\ id \in Ids(todos)
    /\ todos' = [todos EXCEPT ![FirstIndex(todos, id)].completed = ~@]
    /\ Save("toggleTodo", id, "")
    /\ UNCHANGED <<store, now, observers, eventListenerSet, notified, delivered,
                   probe, session, timers, phase, hostListeners, keyTTL, wrote, mig, held, extAt>>

(* editTodo of a todo of the list *)
EditTodo(id, text) ==
    /\ phase = "running"
    /\ stack = <<>>
    /\ text # <<>>
    /\ id \in Ids(todos)
    /\ todos' = [todos EXCEPT ![FirstIndex(todos, id)] =
                    [@ EXCEPT !.text = ProcessTodoText(text),
                              !.priority = ExtractPriority(text),
                              !.tags = ExtractTags(text)]]
    /\ Save("editTodo", id, Implode(text))
    /\ UNCHANGED <<store, now, observers, eventListenerSet, notified, delivered,
                   probe, session, timers, phase, hostListeners, keyTTL, wrote, mig, held, extAt>>

(* clearCompleted: the removal is scheduled *)
ClearCompleted ==
    /\ phase = "running"
    /\ stack = <<>>
    /\ Len(timers) < MaxTimers
    /\ timers' = Append(timers, Timer("clearCompleted", 0, ""))
    /\ UNCHANGED <<store, Cache, TTL, now, observers, eventListenerSet, stack, notified,
                   delivered, ncalls, probe, session, todos, phase, hostListeners, keyTTL, wrote,
                   mig, held, setAt, extAt, ttlSet>>

(* clearCompleted: the scheduled callback keeps the todos not completed *)
ClearTimeout ==
    /\ phase = "running"
    /\ stack = <<>>
    /\ timers # <<>>
    /\ Head(timers).op = "clearCompleted"
    /\ timers' = Tail(timers)
    /\ LET Open(todo) == ~todo.completed
       IN  todos' = SelectSeq(todos, Open)
    /\ Save("clearCompleted", "", "")
    /\ UNCHANGED <<store, now, observers, eventListenerSet, notified, delivered,
                   probe, session, phase, hostListeners, keyTTL, wrote, mig, held, extAt>>

(* the program from its start on no list or on a legacy list, then every    *)
(* handler that changes the list                                            *)
EditStores ==
    {StoredAs("", ""),
     StoredAs("", EncodeList(<<Legacy("1", "a", FALSE, 100), Legacy("2", "b", TRUE, 200)>>))}

InitEdit ==
    /\ probe = "edit"
    /\ store \in EditStores
    /\ Cache = EmptyMap
    /\ TTL = EmptyMap
    /\ now = 0
    /\ observers = [k \in Keys \cup {Wildcard} |-> <<>>]
    /\ eventListenerSet = FALSE
    /\ stack = <<>>
    /\ notified = <<>>
    /\ delivered = <<>>
    /\ ncalls = 0
    /\ held = [k \in Keys |-> {}]
    /\ setAt = EmptyMap
    /\ extAt = EmptyMap
    /\ ttlSet = {}
    /\ keyTTL = EmptyMap
    /\ wrote = EmptyMap
    /\ mig = NoMigration
    /\ todos = <<>>
    /\ timers = <<>>
    /\ phase = "start"
    /\ hostListeners = 0
    /\ session = EmptyMap

NextEdit ==
    \/ Initialize
    \/ MigrateTodoSchema
    \/ SetCurrentVersion
    \/ LoadTodos
    \/ \E text \in TypedTexts : AddTodo(text)
    \/ \E id \in EditIds : ToggleTodo(id)
    \/ \E id \in EditIds, text \in TypedTexts : EditTodo(id, text)
    \/ \E id \in EditIds : DeleteTodo(id)
    \/ DeleteTimeout
    \/ ClearCompleted
    \/ ClearTimeout
    \/ \E source \in EditIds, target \in EditIds : Drop(source, target)
    \/ SetItemStore
    \/ Return

SpecEdit == InitEdit /\ [][NextEdit]_vars

----------------------------------------------------------------------------
(* Observers that fail, the key "*" and the window's storage events *)

(* the keys written here: a plain key and the string of the wildcard *)
ListenKeys == {"k1", Wildcard}

(* notifyObservers calls the next observer, which panics: nothing recovers  *)
InvokePanic ==
    /\ Dispatching
    /\ delivered' = Append(delivered, Delivery(Top))
    /\ stack' = Panic([stack EXCEPT ![Len(stack)] = [Top EXCEPT !.pending = Tail(Top.pending)]])
    /\ UNCHANGED <<store, Cache, TTL, now, observers, eventListenerSet, notified,
                   ncalls, probe, session, todos, timers, phase, hostListeners, keyTTL, wrote, mig,
                   held, setAt, extAt, ttlSet>>

(* another context has set k to v: the window raises a storage event, which *)
(* every listener setupStorageEventListener added is called with            *)
StorageEvent(k, v) ==
    /\ stack = <<>>
    /\ store' = MapSet(store, k, v)
    /\ stack' = <<Settle([Frame(1, "StorageEvent", k, v, 0, "dispatch")
                            EXCEPT !.ev = [key |-> k, old |-> StoreGetItem(store, k), new |-> v],
                                   !.keys = [i \in 1..hostListeners |-> k]])>>
    /\ ncalls' = 1
    /\ held' = Hold(held, store')
    /\ extAt' \in Stamps(extAt, Changed(store, store'), now)
    /\ UNCHANGED <<Cache, TTL, now, observers, eventListenerSet, notified, delivered,
                   probe, session, todos, timers, phase, hostListeners, keyTTL, wrote, mig, setAt, ttlSet>>

(* the callback of setupStorageEventListener: up to its first observer call *)
EventCallback ==
    /\ At({"StorageEvent"}, "dispatch")
    /\ Top.pending = <<>>
    /\ Top.keys # <<>>
    /\ LET f == Top
       IN  /\ notified' = Append(notified, Note(f, f.ev, TRUE))
           /\ SetTop([f EXCEPT !.pending = DispatchList(f.ev.key), !.keys = Tail(f.keys)])
    /\ UNCHANGED <<store, Cache, TTL, now, observers, eventListenerSet, delivered,
                   ncalls, probe, session, todos, timers, phase, hostListeners, keyTTL, wrote, mig,
                   held, setAt, extAt, ttlSet>>

InitListen ==
    /\ probe = "listen"
    /\ InitProgram

(* registrations, mutations of the store and storage events, with observers *)
(* that return or panic                                                     *)
NextListen ==
    \/ \E k \in Keys, l \in Observers : ObserveKey(k, l)
    \/ \E l \in Observers : ObserveAll(l)
    \/ \E k \in ListenKeys, v \in Values : CallStorage("SetItem", k, v)
    \/ \E k \in ListenKeys : CallStorage("RemoveItem", k, "")
    \/ CallStorage("Clear", "", "")
    \/ \E k \in ListenKeys, v \in Values : CSetItem(k, v)
    \/ \E k \in ListenKeys, v \in Values : StorageEvent(k, v)
    \/ EventCallback
    \/ SetItemStore
    \/ RemoveItemStore
    \/ ClearStore
    \/ ClearNext
    \/ Invoke
    \/ InvokePanic
    \/ Return

SpecListen == InitListen /\ [][NextListen]_vars

----------------------------------------------------------------------------
(* Properties *)

Frames == {stack[i] : i \in DOMAIN stack}
NotesOf(id) == {i \in DOMAIN notified : notified[i].id = id}
Returning(ops) == stack # <<>> /\ Top.op \in ops /\ Top.at = "return"
Live(c, t, n, k) == k \in DOMAIN c /\ k \in DOMAIN t /\ t[k] > n

(* C1: every cached value is a value the store has held for that key, at    *)
(* every step, also between the statements of CachedStorage.SetItem         *)
C1_CacheHeldByStore ==
    probe = "held" => \A k \in DOMAIN Cache : Cache[k] \in held[k]

(* C2: GetItem of a key whose cache entry expires strictly after now        *)
(* returns the cached value, reads the store zero times and leaves cache,   *)
(* expiry map and store as they were                                        *)
C2_LiveEntryServedFromCache ==
    Returning({"CGetItem"}) =>
        LET f == Top
            k == f.key
        IN  Live(f.pre.Cache, f.pre.TTL, f.pre.now, k) =>
                /\ f.ret = f.pre.Cache[k]
                /\ f.reads = 0
                /\ Cache = f.pre.Cache
                /\ TTL = f.pre.TTL
                /\ store = f.pre.store

C2_Witness ==
    /\ Returning({"CGetItem"})
    /\ Live(Top.pre.Cache, Top.pre.TTL, Top.pre.now, Top.key)
    /\ Top.pre.now > 0
    /\ Top.ret # StoreGetItem(store, Top.key)

(* C3: after SetItem(k, v) at t0, with nothing but reads of k since, a      *)
(* GetItem(k) before t0 + DefaultTTL returns v from the cache without a     *)
(* store read, and the first GetItem(k) at or after t0 + DefaultTTL drops   *)
(* the entry, reads the store exactly once and returns the store's value    *)
C3_ServedUntilExpiryThenReread ==
    Returning({"CGetItem"}) =>
        LET f == Top
            k == f.key
        IN  k \in DOMAIN f.pre.setAt =>
                IF f.pre.now < f.pre.setAt[k].at + DefaultTTL
                THEN /\ f.reads = 0
                     /\ f.ret = f.pre.setAt[k].value
                ELSE /\ f.reads = 1
                     /\ f.ret = StoreGetItem(f.pre.store, k)
                     /\ k \in DOMAIN Cache =>
                            /\ Cache[k] = StoreGetItem(f.pre.store, k)
                            /\ k \in DOMAIN TTL
                            /\ TTL[k] = f.pre.now + DefaultTTL
                     /\ k \notin DOMAIN Cache => k \notin DOMAIN TTL

C3_Witness ==
    /\ Returning({"CGetItem"})
    /\ Top.key \in DOMAIN Top.pre.setAt
    /\ Top.pre.now >= Top.pre.setAt[Top.key].at + DefaultTTL
    /\ Top.reads = 1
    /\ Top.ret # Top.pre.setAt[Top.key].value

(* C4: a GetItem(k) at least DefaultTTL after the last change of k by a     *)
(* writer other than this cache returns the store's value, if SetTTL was    *)
(* never applied to k                                                       *)
C4_StalenessBounded ==
    Returning({"CGetItem"}) =>
        LET f == Top
            k == f.key
        IN  (/\ k \in DOMAIN f.pre.extAt
             /\ k \notin f.pre.ttlSet
             /\ f.pre.now >= f.pre.extAt[k] + DefaultTTL)
            => f.ret = StoreGetItem(f.pre.store, k)

(* C5: every SetItem, raw or cached, calls notifyObservers exactly once,    *)
(* with (k, the store's value of k just before the write, v), whatever the  *)
(* cache holds, and only once the store holds v                             *)
C5_SetItemNotifiesOnceWithStoreOldValue ==
    /\ \A f \in Frames : f.op \in {"CSetItem", "SetItem"} =>
           IF f.at = "store" THEN NotesOf(f.id) = {}
           ELSE /\ Cardinality(NotesOf(f.id)) = 1
                /\ \A i \in NotesOf(f.id) :
                       /\ notified[i].key = f.key
                       /\ notified[i].old = StoreGetItem(f.pre.store, f.key)
                       /\ notified[i].new = f.value
                       /\ notified[i].applied
    /\ \A id \in 1..ncalls : (id > 1 /\ \A f \in Frames : f.id # id) =>
           Cardinality(NotesOf(id)) = 1

C5_Witness ==
    /\ Returning({"CSetItem"})
    /\ Top.key \in DOMAIN Top.pre.Cache
    /\ Top.key \in DOMAIN Top.pre.store
    /\ Top.pre.Cache[Top.key] # Top.pre.store[Top.key]
    /\ \E i \in NotesOf(Top.id) : notified[i].old = Top.pre.store[Top.key]
                                  /\ notified[i].new # notified[i].old

(* C6: when a CachedStorage.SetItem and the SetItem calls observers made    *)
(* during it have all returned, store and cache both hold the value of the  *)
(* call that wrote the store last                                           *)
LastNote(k) == notified[CHOOSE i \in DOMAIN notified :
                   /\ notified[i].key = k
                   /\ \A j \in DOMAIN notified : notified[j].key = k => j <= i]

C6_LastStoreWriteWins ==
    (Returning({"CSetItem"}) /\ Len(stack) = 1) =>
        \A k \in {notified[i].key : i \in DOMAIN notified} :
            /\ k \in DOMAIN store
            /\ store[k] = LastNote(k).new
            /\ k \in DOMAIN Cache
            /\ Cache[k] = LastNote(k).new

C6_Witness ==
    /\ Returning({"CSetItem"})
    /\ Len(stack) = 1
    /\ ncalls > 1
    /\ Top.key \in DOMAIN Top.pre.Cache
    /\ LastNote(Top.key).new # Top.value
    /\ Cache[Top.key] = LastNote(Top.key).new

(* C7: when CachedStorage.Clear returns (no observer having written), the   *)
(* store is empty, the instance's cache is empty and GetItem of every key   *)
(* returns ""                                                               *)
C7_ClearEmptiesStoreAndCache ==
    (Returning({"CClear"}) /\ ncalls = 1) =>
        /\ store = EmptyMap
        /\ Cache = EmptyMap
        /\ \A k \in Keys : GetItemValue(k) = ""

(* C8: Clear on a store with key set K calls notifyObservers once for each  *)
(* key of K and for no other key, each time with newValue "", and only      *)
(* after the store was emptied                                              *)
C8_ClearNotifiesEachKeyOnce ==
    \A f \in Frames : f.op \in {"CClear", "Clear"} =>
        LET K == DOMAIN f.pre.store
            N == NotesOf(f.id)
        IN  IF f.at = "store" THEN N = {}
            ELSE /\ \A i \in N : /\ notified[i].key \in K
                                 /\ notified[i].new = ""
                                 /\ notified[i].applied
                 /\ \A i, j \in N : i # j => notified[i].key # notified[j].key
                 /\ {notified[i].key : i \in N} \cup {f.keys[i] : i \in DOMAIN f.keys} = K
                 /\ f.at = "return" => Cardinality(N) = Cardinality(K)

C8_Witness ==
    /\ Returning({"CClear", "Clear"})
    /\ DOMAIN Top.pre.store = Keys
    /\ Cardinality(NotesOf(Top.id)) = Cardinality(Keys)
    /\ delivered # <<>>

(* C9: CachedStorage.RemoveItem(k) calls notifyObservers exactly once, with *)
(* (k, the store's previous value, ""); and until an observer calls back,   *)
(* cache, expiry map and store do not hold k, GetItem(k) returns "" and the *)
(* entries of the other keys are as before the call                         *)
C9_RemoveItemEvictsAndNotifiesOnce ==
    \A f \in Frames : (f.op = "CRemoveItem" /\ f.at # "store") =>
        LET k == f.key
        IN  /\ Cardinality(NotesOf(f.id)) = 1
            /\ \A i \in NotesOf(f.id) :
                   /\ notified[i].key = k
                   /\ notified[i].old = StoreGetItem(f.pre.store, k)
                   /\ notified[i].new = ""
                   /\ notified[i].applied
            /\ ncalls = f.id =>
                   /\ k \notin DOMAIN Cache
                   /\ k \notin DOMAIN TTL
                   /\ k \notin DOMAIN store
                   /\ GetItemValue(k) = ""
                   /\ \A j \in Keys \ {k} :
                          /\ (j \in DOMAIN Cache) = (j \in DOMAIN f.pre.Cache)
                          /\ j \in DOMAIN Cache => Cache[j] = f.pre.Cache[j]
                          /\ (j \in DOMAIN TTL) = (j \in DOMAIN f.pre.TTL)
                          /\ j \in DOMAIN TTL => TTL[j] = f.pre.TTL[j]
                          /\ (j \in DOMAIN store) = (j \in DOMAIN f.pre.store)
                          /\ j \in DOMAIN store => store[j] = f.pre.store[j]

C9_Witness ==
    /\ Returning({"CRemoveItem"})
    /\ Top.key \in DOMAIN Top.pre.Cache
    /\ Top.key \in DOMAIN Top.pre.store
    /\ DOMAIN Cache # {}
    /\ delivered # <<>>
    /\ ncalls = 1

(* C10: when InvalidateCache returns, GetItem of every key reads the store  *)
(* and returns the store's current value                                    *)
C10_InvalidateCacheForcesReread ==
    Returning({"InvalidateCache"}) =>
        \A k \in Keys : /\ GetItemReads(k) = 1
                        /\ GetItemValue(k) = StoreGetItem(store, k)

(* C11: when InvalidateKey(k) returns, cache and expiry map hold nothing for *)
(* k and for every other key what they held before, and GetItem(k) reads    *)
(* the store and returns the store's current value                          *)
C11_InvalidateKeyDropsOnlyThatKey ==
    Returning({"InvalidateKey"}) =>
        LET f == Top
            k == f.key
        IN  /\ k \notin DOMAIN Cache
            /\ k \notin DOMAIN TTL
            /\ \A j \in Keys \ {k} :
                   /\ (j \in DOMAIN Cache) = (j \in DOMAIN f.pre.Cache)
                   /\ j \in DOMAIN Cache => Cache[j] = f.pre.Cache[j]
                   /\ (j \in DOMAIN TTL) = (j \in DOMAIN f.pre.TTL)
                   /\ j \in DOMAIN TTL => TTL[j] = f.pre.TTL[j]
            /\ GetItemReads(k) = 1
            /\ GetItemValue(k) = StoreGetItem(store, k)

C11_Witness ==
    /\ Returning({"InvalidateKey"})
    /\ Live(Top.pre.Cache, Top.pre.TTL, Top.pre.now, Top.key)
    /\ Top.pre.Cache[Top.key] # StoreGetItem(store, Top.key)
    /\ DOMAIN Cache # {}

(* C12: when InvalidateKey or InvalidateCache returns, the store is as it   *)
(* was, no observer was notified or called, and GetItem of an invalidated   *)
(* key returns what the store holds                                         *)
C12_InvalidationInvisible ==
    Returning({"InvalidateKey", "InvalidateCache"}) =>
        LET f == Top
        IN  /\ store = f.pre.store
            /\ notified = <<>>
            /\ delivered = <<>>
            /\ \A k \in (IF f.op = "InvalidateKey" THEN {f.key} ELSE Keys) :
                   GetItemValue(k) = StoreGetItem(store, k)

C14_SetJSONAllOrNothing ==
    /\ Returning({"CSetJSON", "SetJSON"}) =>
           /\ Top.err
           /\ Marshal(Top.arg).err
           /\ Cache = Top.pre.Cache
           /\ TTL = Top.pre.TTL
           /\ store = Top.pre.store
           /\ notified = <<>>
           /\ delivered = <<>>
    /\ (Returning({"CSetItem"}) /\ Top.key \in DOMAIN wrote /\ wrote[Top.key].kind = "json") =>
           LET m == Marshal(wrote[Top.key].val)
           IN  /\ ~m.err
               /\ ~Top.err
               /\ StoreGetItem(store, Top.key) = m.data
               /\ Top.key \in DOMAIN Cache
               /\ Cache[Top.key] = m.data

C14_Witness ==
    /\ Returning({"CSetJSON"})
    /\ Top.err
    /\ Top.key \in DOMAIN Cache
    /\ Top.key \in DOMAIN wrote
    /\ wrote[Top.key].kind = "json"
    /\ Cache[Top.key] = Marshal(wrote[Top.key].val).data

(* C15: a typed read of a stored text that is malformed for its type        *)
(* returns the caller's default (GetJSON: leaves the target), returns no    *)
(* error and leaves the store as it was                                     *)
MalformedFor(op, value, arg) ==
    /\ value # ""
    /\ CASE op = "CGetBool" -> ParseBool(value).err
         [] op = "CGetJSON" -> Unmarshal(value, arg).err
         [] op = "GetInt"   -> Atoi(value).err
         [] op = "GetFloat" -> ParseFloat(value).err
         [] op = "GetTime"  -> ParseInt(value).err
         [] OTHER           -> FALSE

C15_MalformedGivesDefault ==
    Returning({"CGetBool", "CGetJSON", "GetInt", "GetFloat", "GetTime"}) =>
        (MalformedFor(Top.op, Top.ret, Top.arg) =>
            /\ ~Top.err
            /\ Top.out = Top.arg
            /\ store = Top.pre.store)

(* C16: once SetTTL(k, d) was called, every entry GetItem(k) or SetItem(k)  *)
(* makes for k afterwards expires d after the time it was made              *)
C16_KeyTTLUsedForNewEntries ==
    /\ Returning({"CGetItem"}) =>
           LET f == Top
               k == f.key
           IN  (k \in DOMAIN keyTTL /\ f.reads = 1 /\ k \in DOMAIN Cache)
                   => (k \in DOMAIN TTL /\ TTL[k] = f.pre.now + keyTTL[k])
    /\ \A f \in Frames : (f.op = "CSetItem" /\ f.key \in DOMAIN keyTTL)
           => (f.key \in DOMAIN TTL /\ TTL[f.key] = f.pre.now + keyTTL[f.key])

Runs == {f \in Frames : f.op = "RunMigration"}
InSequence(f) == mig.last.target = mig.target /\ f.pre.store = mig.last.store

(* C17: a RunMigration(target) called with a persisted version below target *)
(* calls the body once, with (that version, target); the persisted version  *)
(* is the old one while the body runs and until it has returned nil, and is *)
(* target when the run returns without error                                *)
C17_BodyOnceThenVersion ==
    \A f \in Runs :
        LET current == Version(f.pre.store)
            target == f.arg.val
        IN  current < target =>
                /\ mig.invoked = <<[from |-> current, to |-> target]>>
                /\ f.at = "body" => (mig.body = "running" /\ Version(store) = current)
                /\ f.at = "store" => (mig.body = "ok" /\ Version(store) = current)
                /\ (f.at \in {"dispatch", "return"} /\ ~f.err) =>
                       (mig.body = "ok" /\ Version(store) = target)
                /\ f.err => mig.body = "err"

C17_Witness ==
    /\ Returning({"RunMigration"})
    /\ ~Top.err
    /\ Version(Top.pre.store) = 1
    /\ Top.arg.val = 2
    /\ Version(store) = 2
    /\ StoreGetItem(store, TypedKey) # StoreGetItem(Top.pre.store, TypedKey)

(* C18: when the body returns an error, RunMigration returns it with the    *)
(* persisted version as it was; a run of the same target that follows a     *)
(* failed one calls the body again, one that follows a successful one does  *)
(* not                                                                      *)
C18_FailedMigrationRetried ==
    \A f \in Runs :
        /\ mig.body = "err" =>
               /\ f.at = "return"
               /\ f.err
               /\ Version(store) = Version(f.pre.store)
        /\ f.err => mig.body = "err"
        /\ (InSequence(f) /\ mig.last.result = "err") => Len(mig.invoked) = 1
        /\ (InSequence(f) /\ mig.last.result = "ok") => mig.invoked = <<>>

C18_Witness ==
    /\ Returning({"RunMigration"})
    /\ InSequence(Top)
    /\ mig.last.result = "err"
    /\ mig.body = "ok"
    /\ Version(store) = mig.target
    /\ Version(Top.pre.store) < mig.target

(* C19 as stated: a run called with a persisted version at or above target  *)
(* calls no body and changes nothing in the store; and of two runs of the   *)
(* same target in sequence at most one calls the body and the second leaves *)
(* the store as the first left it                                           *)
C19_Original ==
    \A f \in Runs :
        /\ Version(f.pre.store) >= f.arg.val => (mig.invoked = <<>> /\ store = f.pre.store)
        /\ InSequence(f) =>
               /\ mig.last.invoked + Len(mig.invoked) <= 1
               /\ store = f.pre.store

(* C19: a run called with a persisted version at or above target calls no   *)
(* body and changes nothing in the store; and of two runs of the same       *)
(* target in sequence, the first without error, at most one calls the body  *)
(* and the second leaves the store as the first left it                     *)
C19_MigrationIdempotent ==
    \A f \in Runs :
        /\ Version(f.pre.store) >= f.arg.val => (mig.invoked = <<>> /\ store = f.pre.store)
        /\ (InSequence(f) /\ mig.last.result # "err") =>
               /\ mig.last.invoked + Len(mig.invoked) <= 1
               /\ store = f.pre.store

C19_Witness ==
    /\ Returning({"RunMigration"})
    /\ InSequence(Top)
    /\ mig.last.result = "ok"
    /\ mig.last.invoked = 1
    /\ mig.target = 2
    /\ Version(store) = 2
    /\ TypedKey \in DOMAIN store

(* C20: no step takes the persisted schema version to a lower one *)
C20_VersionNeverDecreases == [][Version(store') >= Version(store)]_vars

(* a record of the legacy schema: id, text, completed and createdAt, each   *)
(* of its type, and nothing else                                            *)
WellFormedLegacy(m) == DOMAIN m = {"id", "text", "completed", "createdAt"} /\ Convertible(m)
LegacyList(s) == {q \in Lists : EncodeList(q) = s /\ \A i \in 1..Len(q) : WellFormedLegacy(q[i])}
StoredList(s) == {q \in Lists : EncodeList(q) = s}

(* C21: when the RunMigration(2, migrateTodoSchema) of initialize returns,  *)
(* having been called on version 0 and a stored list of n well-formed       *)
(* legacy records, the store holds a list of n records, the i-th with the   *)
(* id, text, completed and createdAt of the i-th legacy record, position    *)
(* i (counted from 0), priority 0 and no tags, and the version is 2         *)
C21_LegacyListMigrated ==
    (probe = "app" /\ Returning({"RunMigration"})) =>
        \A q \in LegacyList(StoreGetItem(Top.pre.store, TodosKey)) :
            Version(Top.pre.store) = 0 =>
                /\ Version(store) = 2
                /\ \E r \in StoredList(StoreGetItem(store, TodosKey)) :
                       /\ Len(r) = Len(q)
                       /\ \A i \in 1..Len(q) :
                              /\ DOMAIN r[i] = {Fields[j] : j \in 1..Len(Fields)}
                              /\ \A f \in DOMAIN q[i] : r[i][f] = q[i][f]
                              /\ r[i]["position"] = Typed("num", i - 1)
                              /\ r[i]["priority"] = Typed("num", 0)
                              /\ r[i]["tags"] = Typed("strs", <<>>)

C21_Witness ==
    /\ probe = "app"
    /\ Returning({"RunMigration"})
    /\ Version(Top.pre.store) = 0
    /\ StoreGetItem(Top.pre.store, TodosKey) =
           "[{\"id\":\"1\",\"text\":\"a\",\"completed\":false,\"createdAt\":100},"
               \o "{\"id\":\"2\",\"text\":\"b\",\"completed\":true,\"createdAt\":200}]"
    /\ StoreGetItem(store, TodosKey) =
           "[{\"id\":\"1\",\"text\":\"a\",\"completed\":false,\"createdAt\":100,"
               \o "\"position\":0,\"priority\":0,\"tags\":[]},"
               \o "{\"id\":\"2\",\"text\":\"b\",\"completed\":true,\"createdAt\":200,"
               \o "\"position\":1,\"priority\":0,\"tags\":[]}]"
    /\ Version(store) = 2

(* the store holds a list with a record that lacks a required legacy field  *)
(* or holds it with another type                                            *)
BrokenStored(s) ==
    \E q \in StoredList(StoreGetItem(s, TodosKey)) : \E i \in 1..Len(q) : ~Convertible(q[i])

(* C22: once the migration body has run on a stored list with a record that *)
(* lacks id, text, completed or createdAt or holds it with the wrong type,  *)
(* RunMigration is returning an error to its caller, with the version and   *)
(* the stored list as they were                                             *)
C22_BrokenRecordReturnsError ==
    probe = "app" =>
        \A f \in Runs :
            (BrokenStored(f.pre.store) /\ Version(f.pre.store) < SchemaTarget
                 /\ ~At({"RunMigration"}, "body")) =>
                /\ f.at = "return"
                /\ f.err
                /\ Version(store) = Version(f.pre.store)
                /\ StoreGetItem(store, TodosKey) = StoreGetItem(f.pre.store, TodosKey)

(* C23: when the RunMigration of initialize returns, every stored record    *)
(* that carried position, priority and tags before the run carries the same *)
(* position, priority and tags                                              *)
C23_ExistingFieldsKept ==
    (probe = "app" /\ Returning({"RunMigration"})) =>
        \A q \in StoredList(StoreGetItem(Top.pre.store, TodosKey)) :
            \E r \in StoredList(StoreGetItem(store, TodosKey)) :
                /\ Len(r) = Len(q)
                /\ \A i \in 1..Len(q) :
                       {"position", "priority", "tags"} \subseteq DOMAIN q[i] =>
                           \A f \in {"position", "priority", "tags"} : r[i][f] = q[i][f]

(* the observers called, in order, for the notification of key k by call id *)
Called(id, k) ==
    LET d == SelectSeq(delivered, LAMBDA x : x.id = id /\ x.key = k)
    IN  [i \in 1..Len(d) |-> d[i].obs]
IsPrefix(p, q) == Len(p) <= Len(q) /\ \A i \in 1..Len(p) : p[i] = q[i]
InProgress(id, k) == \E f \in Frames : f.id = id /\ f.ev.key = k /\ f.pending # <<>>
Count(l, q) == Cardinality({i \in 1..Len(q) : q[i] = l})

(* C24: the observers a notification of key k has called so far are, in     *)
(* this order, the observers registered for k in registration order and     *)
(* then the wildcard observers in registration order, as far as the         *)
(* dispatch has come; when it is through, they are all of them              *)
C24_KeyObserversThenWildcard ==
    probe = "listen" =>
        \A n \in 1..Len(notified) :
            LET id == notified[n].id
                k == notified[n].key
                order == ObserversOf(k) \o ObserversOf(Wildcard)
            IN  /\ IsPrefix(Called(id, k), order)
                /\ (~Panicked /\ ~InProgress(id, k)) => Called(id, k) = order

C24_Witness ==
    /\ probe = "listen"
    /\ Returning({"SetItem"})
    /\ Top.key = "k1"
    /\ observers["k1"] = <<"L2">>
    /\ observers[Wildcard] = <<"L1">>
    /\ Called(Top.id, "k1") = <<"L2", "L1">>

(* C25: when a SetItem(k, v) returns, whatever string k is, every observer  *)
(* has been called once for each of its registrations for k and once for    *)
(* each of its registrations for all keys, a registration for all keys      *)
(* counting once also when k is the string "*"; an observer registered for  *)
(* other keys only has not been called                                      *)
C25_EachListenerOnce ==
    (probe = "listen" /\ Returning({"SetItem", "CSetItem"})) =>
        \A l \in Observers :
            Count(l, Called(Top.id, Top.key)) =
                IF Top.key = Wildcard THEN Count(l, ObserversOf(Wildcard))
                ELSE Count(l, ObserversOf(Top.key)) + Count(l, ObserversOf(Wildcard))

(* C26: the window holds at most one storage listener of this program: none *)
(* while no observer was registered, one from the first registration on;    *)
(* and when the handling of a storage event is through, the event was       *)
(* dispatched once if an observer is registered (and to nobody if none is)  *)
C26_HostListenerInstalledOnce ==
    probe = "listen" =>
        /\ hostListeners = (IF NumObservers = 0 THEN 0 ELSE 1)
        /\ eventListenerSet = (NumObservers > 0)
        /\ Returning({"StorageEvent"}) =>
               Cardinality(NotesOf(Top.id)) = (IF NumObservers = 0 THEN 0 ELSE 1)

C26_Witness ==
    /\ probe = "listen"
    /\ Returning({"StorageEvent"})
    /\ NumObservers = 2
    /\ hostListeners = 1
    /\ Cardinality(NotesOf(Top.id)) = 1
    /\ Len(delivered) = 2

(* C27: when an observer has failed, no observer that comes after it in     *)
(* the same dispatch is left uncalled (shown for the keys other than "*")   *)
C27_LaterListenersStillCalled ==
    (probe = "listen" /\ Panicked) =>
        \A f \in Frames : f.ev.key # Wildcard => f.pending = <<>>

Mutations == {"SetItem", "RemoveItem", "Clear", "CSetItem", "CRemoveItem", "CClear"}

(* C28: when an observer has failed, no SetItem, RemoveItem or Clear is     *)
(* left that does not return to its caller                                  *)
C28_ListenerFailureNotPropagated ==
    (probe = "listen" /\ Panicked) => \A f \in Frames : f.op \notin Mutations

Item(q, id) == q[CHOOSE i \in 1..Len(q) : q[i].id = id]

(* the drop at the top was of an item of the list on an item of the list *)
BothPresent == {Top.key, Top.value} \subseteq Ids(Top.pre.todos)

(* C29: when a drop of source on target returns, both in the list and not   *)
(* the same, with sp and tp their positions before: the source is at tp;    *)
(* if sp < tp every other item that was at a position in (sp, tp] is one    *)
(* lower, if sp > tp every other item that was in [tp, sp) is one higher;   *)
(* every other item is where it was, and nothing else of the list changed   *)
C29_MoveShiftsRangeByOne ==
    (probe = "app" /\ Returning({"drop"}) /\ BothPresent) =>
        LET before == Top.pre.todos
            sp == Item(before, Top.key).position
            tp == Item(before, Top.value).position
        IN  /\ Len(todos) = Len(before)
            /\ \A i \in 1..Len(before) :
                   LET p == before[i].position
                   IN  /\ todos[i] = [before[i] EXCEPT !.position = todos[i].position]
                       /\ todos[i].position =
                              IF before[i].id = Top.key THEN tp
                              ELSE IF sp < tp /\ sp < p /\ p <= tp THEN p - 1
                              ELSE IF sp > tp /\ tp <= p /\ p < sp THEN p + 1
                              ELSE p

C29_Witness ==
    /\ probe = "app"
    /\ Returning({"drop"})
    /\ Top.key = "1"
    /\ Top.value = "3"
    /\ [i \in 1..Len(Top.pre.todos) |-> <<Top.pre.todos[i].id, Top.pre.todos[i].position>>]
           = <<<<"1", 0>>, <<"2", 1>>, <<"3", 2>>, <<"4", 3>>>>
    /\ [i \in 1..Len(todos) |-> <<todos[i].id, todos[i].position>>]
           = <<<<"1", 2>>, <<"2", 0>>, <<"3", 1>>, <<"4", 3>>>>

(* the positions of a list, each as often as it occurs *)
Positions(q) == [p \in {q[i].position : i \in 1..Len(q)} |->
                    Cardinality({i \in 1..Len(q) : q[i].position = p})]

(* C30: when a drop of an item of the list on an item of the list returns,  *)
(* the positions of the list are, with their multiplicities, the positions  *)
(* the list had before the drop                                             *)
C30_PositionsPermuted ==
    (probe = "app" /\ Returning({"drop"}) /\ BothPresent) => Positions(todos) = Positions(Top.pre.todos)

(* no two items of the list share a position, and no position is negative *)
DistinctPositions(q) ==
    /\ \A i, j \in 1..Len(q) : i # j => q[i].position # q[j].position
    /\ \A i \in 1..Len(q) : q[i].position >= 0

(* C31: when a drop of an item of the list on another item of the list      *)
(* returns and the positions were pairwise distinct and not negative before *)
(* it, they are pairwise distinct and not negative after it                 *)
C31_DistinctPositionsKept ==
    (/\ probe = "app"
     /\ Returning({"drop"})
     /\ BothPresent
     /\ Top.key # Top.value
     /\ DistinctPositions(Top.pre.todos)) => DistinctPositions(todos)

C31_Witness ==
    /\ probe = "app"
    /\ Returning({"drop"})
    /\ BothPresent
    /\ Top.key # Top.value
    /\ Len(todos) = 4
    /\ DistinctPositions(Top.pre.todos)
    /\ PositionOf(Top.pre.todos, Top.key) > PositionOf(Top.pre.todos, Top.value) + 1
    /\ todos # Top.pre.todos

(* C32: when a drop of an item on itself returns, the list, the store, the  *)
(* cache and its expiry times are what they were, and no listener was       *)
(* notified                                                                 *)
C32_DropOnSelfChangesNothing ==
    (probe = "app" /\ Returning({"drop"}) /\ Top.key = Top.value) =>
        /\ todos = Top.pre.todos
        /\ store = Top.pre.store
        /\ Cache = Top.pre.Cache
        /\ TTL = Top.pre.TTL
        /\ notified = <<>>
        /\ delivered = <<>>

C32_Witness ==
    /\ probe = "app"
    /\ Returning({"drop"})
    /\ Top.key = Top.value
    /\ Len(todos) >= 2
    /\ store # <<>>

(* C33: when a CachedStorage.GetItem(k) returns that read the backing store *)
(* and found no k in it, it returns "", the cache has no entry for k and    *)
(* the expiry map none that it had not; and when a GetItem(k) returns that  *)
(* found no cache entry for k, it returns what the backing store held for   *)
(* k, the value of an external writer included                              *)
C33_AbsentKeyNotCached ==
    Returning({"CGetItem"}) =>
        /\ (Top.reads = 1 /\ Top.key \notin DOMAIN Top.pre.store) =>
               /\ Top.ret = ""
               /\ Top.key \notin DOMAIN Cache
               /\ Top.key \in DOMAIN TTL =>
                      (Top.key \in DOMAIN Top.pre.TTL /\ TTL[Top.key] = Top.pre.TTL[Top.key])
        /\ Top.key \notin DOMAIN Top.pre.Cache =>
               /\ Top.reads = 1
               /\ Top.ret = StoreGetItem(Top.pre.store, Top.key)

C33_Witness ==
    /\ probe = "extAt"
    /\ Returning({"CGetItem"})
    /\ Top.reads = 1
    /\ Top.key \notin DOMAIN Top.pre.store
    /\ Top.key \in DOMAIN Top.pre.extAt
    /\ Top.key \notin DOMAIN Cache
    /\ Top.ret = ""

-----------------------------------------------------------------------------
(* sortTodosByPosition on its own: the list is any list of up to MaxItems   *)
(* todos with ids "1", "2", ... in this order and positions in              *)
(* 0..MaxPosition, equal positions among them                               *)
MaxPosition == 2

SortInput(ps) ==
    [i \in 1..Len(ps) |->
        [id |-> Itoa(i), text |-> "t", completed |-> FALSE, createdAt |-> 0,
         position |-> ps[i], priority |-> 0, tags |-> Typed("strs", <<>>)]]

SortInputs ==
    UNION {{SortInput(ps) : ps \in [1..n -> 0..MaxPosition]} : n \in 0..MaxItems}

InitSort ==
    /\ probe = "sort"
    /\ todos \in SortInputs
    /\ store = EmptyMap
    /\ Cache = EmptyMap
    /\ TTL = EmptyMap
    /\ now = 0
    /\ observers = [k \in Keys \cup {Wildcard} |-> <<>>]
    /\ eventListenerSet = FALSE
    /\ stack = <<>>
    /\ notified = <<>>
    /\ delivered = <<>>
    /\ ncalls = 0
    /\ held = [k \in Keys |-> {}]
    /\ setAt = EmptyMap
    /\ extAt = EmptyMap
    /\ ttlSet = {}
    /\ keyTTL = EmptyMap
    /\ wrote = EmptyMap
    /\ mig = NoMigration
    /\ timers = <<>>
    /\ phase = "running"
    /\ hostListeners = 0
    /\ session = EmptyMap

SortTodos ==
    /\ stack = <<>>
    /\ todos' = SortTodosByPosition(todos)
    /\ stack' = <<Frame(1, "sortTodosByPosition", "", "", 0, "return")>>
    /\ ncalls' = 1
    /\ UNCHANGED <<store, Cache, TTL, now, observers, eventListenerSet, notified, delivered,
                   probe, session, timers, phase, hostListeners, keyTTL, wrote, mig, held,
                   setAt, extAt, ttlSet>>

NextSort ==
    \/ SortTodos
    \/ Return

SpecSort == InitSort /\ [][NextSort]_vars

(* the place of the todo with this id in a list *)
IndexOf(q, id) == CHOOSE i \in 1..Len(q) : q[i].id = id

(* C34: when sortTodosByPosition returns, the list has the todos it had,    *)
(* each once, in ascending order of position, and two todos with the same   *)
(* position are in the order they were in                                   *)
C34_SortStablePermutation ==
    Returning({"sortTodosByPosition"}) =>
        LET q == Top.pre.todos
        IN  /\ Len(todos) = Len(q)
            /\ \A i \in 1..Len(q) : \E j \in 1..Len(todos) : todos[j] = q[i]
            /\ \A i, j \in 1..Len(todos) :
                   i < j => /\ todos[i].position <= todos[j].position
                            /\ todos[i].position = todos[j].position =>
                                   IndexOf(q, todos[i].id) < IndexOf(q, todos[j].id)

C34_Witness ==
    /\ Returning({"sortTodosByPosition"})
    /\ Len(todos) = 4
    /\ todos # Top.pre.todos
    /\ \E i, j \in 1..4 : i < j /\ todos[i].position = todos[j].position
    /\ Top.pre.todos[1].position > Top.pre.todos[4].position

(* C35: from the start of the program on no list or on a legacy list, no    *)
(* two todos of the list ever share a position, and when addTodo returns    *)
(* the todo it added has a position above that of every todo there was      *)
C35_PositionsStayDistinct ==
    probe = "edit" =>
        /\ \A i, j \in 1..Len(todos) : i # j => todos[i].position # todos[j].position
        /\ Returning({"addTodo"}) =>
               \A i \in 1..Len(Top.pre.todos) :
                   todos[Len(todos)].position > Top.pre.todos[i].position

(* C36: when the callback scheduled by deleteTodo(id) has run, the list is  *)
(* the list before it without the todo of this id, and the callback never   *)
(* panics on a slice bound                                                  *)
C36_DeleteRemovesItsTodo ==
    probe = "edit" =>
        /\ Returning({"deleteTodo"}) =>
               LET Others(todo) == todo.id # Top.key
               IN  todos = SelectSeq(Top.pre.todos, Others)
        /\ ~(Panicked /\ \E f \in Frames : f.op = "deleteTodo")

(* C37: when a drop returns whose source or target is not the id of a todo  *)
(* of the list, every todo has the position it had                          *)
C37_AbsentIdChangesNothing ==
    (probe = "app" /\ Returning({"drop"}) /\ ~BothPresent) =>
        /\ Len(todos) = Len(Top.pre.todos)
        /\ \A i \in 1..Len(todos) : todos[i].position = Top.pre.todos[i].position

(* C38: of two calls of the same listener for the same key, the earlier is  *)
(* for the write that was applied to the store earlier (the operations are  *)
(* numbered in the order they write)                                        *)
C38_NotificationsInWriteOrder ==
    \A i, j \in DOMAIN delivered :
        (i < j /\ delivered[i].obs = delivered[j].obs /\ delivered[i].key = delivered[j].key)
            => delivered[i].id <= delivered[j].id

(* C40: every notification of Storage.Clear or CachedStorage.Clear carries  *)
(* as old value what the store held for its key when Clear was called       *)
C40_ClearOldValueIsValueBefore ==
    \A f \in Frames : \A i \in NotesOf(f.id) :
        f.op \in {"Clear", "CClear"} =>
            notified[i].old = StoreGetItem(f.pre.store, notified[i].key)

-----------------------------------------------------------------------------
(* The two storage areas.  The observers are registered through the         *)
(* LocalStorage() handle; store is window.localStorage.                     *)

(* SessionStorage().SetItem up to the first observer call: s.storageObj is  *)
(* sessionStorage, notifyObservers reads the package variable observers     *)
SessionSetItemStore ==
    /\ At({"SessionSetItem"}, "store")
    /\ LET f == Top
           k == f.key
           e == [key |-> k, old |-> StoreGetItem(session, k), new |-> f.value]
       IN  /\ session' = MapSet(session, k, f.value)
           /\ notified' = Append(notified, Note(f, e, StoreGetItem(session', k) = f.value))
           /\ SetTop([f EXCEPT !.at = "dispatch", !.ev = e, !.pending = DispatchList(k)])
    /\ UNCHANGED <<store, Cache, TTL, now, observers, eventListenerSet, delivered, ncalls,
                   probe, todos, timers, phase, hostListeners, keyTTL, wrote, mig, held,
                   setAt, extAt, ttlSet>>

InitAreas ==
    /\ probe = "areas"
    /\ InitProgram

NextAreas ==
    \/ \E k \in Keys, l \in Observers : ObserveKey(k, l)
    \/ \E l \in Observers : ObserveAll(l)
    \/ \E k \in Keys, v \in Values : CallStorage("SetItem", k, v)
    \/ \E k \in Keys, v \in Values : CallStorage("SessionSetItem", k, v)
    \/ SetItemStore
    \/ SessionSetItemStore
    \/ Invoke
    \/ Return

SpecAreas == InitAreas /\ [][NextAreas]_vars

(* C39: no observer is called by an operation on sessionStorage: every      *)
(* observer was registered through the localStorage handle                  *)
C39_OtherAreaDoesNotNotify ==
    probe = "areas" =>
        \A f \in Frames : f.op = "SessionSetItem" =>
            \A i \in DOMAIN delivered : delivered[i].id # f.id

====
